---- MODULE Spec2Model ----
(***************************************************************************)
(* A model of the WindowEmperor of Windows Terminal                        *)
(* (src/cascadia/WindowsTerminal/WindowEmperor.cpp): the handoff codec,    *)
(* the single-instance step of HandleCommandlineArgs, the pool of window   *)
(* threads with the exit of the process, the notification icon, the        *)
(* global hotkeys, the handler of the message window and the sweep of the  *)
(* session buffers at the exit.                                            *)
(*                                                                         *)
(* The specifications of the module, each leaving the others' variables    *)
(* as they are:                                                            *)
(*   SpecCodec     one launch payload is serialized, possibly damaged on   *)
(*                 the way (WM_COPYDATA accepts any buffer), deserialized; *)
(*   Spec          several launches race through HandleCommandlineArgs     *)
(*                 (FairSpec: with every launch taking its steps);         *)
(*   SpecPool      the window threads of a primary from construction on;   *)
(*   SpecShutdown  the same with the counter of windows near 1, and the    *)
(*                 exit of the main thread;                                *)
(*   SpecIcon      the window threads, quake mode, the setting and the     *)
(*                 calls of _checkWindowsForNotificationIcon;              *)
(*   SpecHotkeys   the settings' global hotkeys and _setupGlobalHotkeys;   *)
(*   SpecMessages  the messages of _messageHandler, WM_COPYDATA with any   *)
(*                 buffer, and the window threads they start;              *)
(*   SpecFaults    the window threads, where CreateHost() and              *)
(*                 RunMessagePump() may throw;                             *)
(*   SpecTray      the main thread with its dispatcher queue, the shell's  *)
(*                 notification area and the TaskbarCreated message;       *)
(*   SpecLocks     the window threads and the main thread with the locks   *)
(*                 of _windows and _oldWindows;                            *)
(*   SpecPress     the global hotkeys with the WM_HOTKEY messages;         *)
(*   SpecSweep     _finalizeSessionPersistence over the files of the       *)
(*                 settings directory.                                     *)
(*                                                                         *)
(* Numbers: TLC's integers are 32 bits wide and signed, so a uint32_t is   *)
(* kept as two 16-bit halves [hi, lo], and a size_t product that does not  *)
(* fit 31 bits is kept as "huge" (greater than any buffer of the model).   *)
(***************************************************************************)
EXTENDS Integers, Sequences, FiniteSets, TLC

(***************************************************************************)
(* Bounds of the model.                                                    *)
(***************************************************************************)
\* the longest command line, environment block and working directory, in
\* UTF-16 code units
MaxLen == 2
\* the most bytes a foreign sender appends after a payload
MaxTail == 2
\* the number of launches (processes) of one build variant
NProcs == 2
\* the most handoff messages one process handles
MaxHandoffs == 1

\* the most window requests the primary of SpecPool and SpecShutdown gets
MaxRequests == 4
\* the most windows opened where the notification icon is followed
MaxShown == 2
\* the most bindings of the settings, the key chords they are chosen from and
\* the most _setupGlobalHotkeys() calls that wait for the main thread
MaxBindings == 2
NChords == 2
MaxResyncs == 2
\* the most events from outside (a window requested, quake mode entered or
\* left, the settings reloaded, explorer.exe restarted) where the main
\* thread's queue is followed
MaxEvents == 3
\* the most WM_HOTKEY messages followed
MaxPresses == 1
\* the sessions whose buffer files and layouts the sweep at the exit meets
NIds == 2

(***************************************************************************)
(* Integer widths.                                                         *)
(***************************************************************************)
Half == 256 * 256

\* sizeof(size_t) * 8 of the build: Windows Terminal is built for x86 (32)
\* and for x64 and ARM64 (64)
SizeBitsOfBuilds == {32, 64}

\* a uint32_t
Uint32 == [hi : 0..(Half - 1), lo : 0..(Half - 1)]

\* static_cast<uint32_t>(n) and gsl::narrow<uint32_t>(n) of a number TLC can
\* hold: the two's complement of n in 32 bits
ToUint32(n) == [hi |-> (n \div Half) % Half, lo |-> n % Half]

\* static_cast<int>(v): the int whose 32 bits are v's
ToInt(v) == IF v.hi >= 32768 THEN (v.hi - Half) * Half + v.lo ELSE v.hi * Half + v.lo

\* sizeof(wchar_t)
SizeofWchar == 2

\* sizeof(uint32_t)
SizeofUint32 == 4

VARIABLES
    \* ---- the codec: one payload on its way from a launch to the primary
    sizeBits,   \* the width of size_t in this build
    payload,    \* what the launching process serializes
    buf,        \* the bytes of the COPYDATASTRUCT (lpData, cbData)
    tamper,     \* how the buffer differs from what the launch serialized
    handoff,    \* what deserializeHandoffPayload made of buf
    phase       \* "launch", "sent", "received"

codecVars == <<sizeBits, payload, buf, tamper, handoff, phase>>

VARIABLES
    \* ---- the launches: each process runs HandleCommandlineArgs
    pc,            \* where each process stands
    isolated,      \* _app.Logic().IsolatedMode() of each process
    sleep,         \* acquireMutexOrAttemptHandoff's loop variable
    mutexHandles,  \* the processes with an open handle to the named mutex
    mutex,         \* whether HandleCommandlineArgs' `mutex` holds a handle
    hwnd,          \* what FindWindowW returned, while in scope (0: nullptr)
    window,        \* whether the process' message window exists
    hotkeys,       \* whether _setupGlobalHotkeys was called
    icon,          \* whether _checkWindowsForNotificationIcon was called
    threads,       \* the requests _createNewWindowThread was called with
    outcome,       \* how the single-instance step ended
    \* ---- what each process did so far
    attempts,      \* calls of CreateMutexW
    searches,      \* calls of FindWindowW
    delays,        \* the Sleep()s made, in order
    sendFailed     \* whether a SendMessageTimeoutW call returned 0

procVars ==
    <<pc, isolated, sleep, mutexHandles, mutex, hwnd, window, hotkeys, icon,
      threads, outcome, attempts, searches, delays, sendFailed>>

VARIABLES
    \* ---- the window pool of one primary process
    isWindows11,            \* Utils::IsWindows11() of the machine
    allowHeadless,          \* _app.Logic().AllowHeadless()
    quitting,               \* _quitting
    windows,                \* _windows: the records that run a window
    oldWindows,             \* _oldWindows: the refrigerated records
    windowThreadInstances,  \* _windowThreadInstances, a uint32_t
    wpc,                    \* where each record's thread stands
    served,                 \* the requests each record was handed, in order
    requests,               \* the calls of _createNewWindowThread so far
    dispatcherQueue,        \* the _close() calls waiting to resume on the main thread
    quitPosted,             \* PostQuitMessage(0) was called
    mainpc,                 \* where the main thread stands
    flushed,                \* _finalizeSessionPersistence() has run
    terminatedBy,           \* the thread that ended the process
    \* ---- history, read by the properties only
    parkedAt,               \* the turn in which each record was last refrigerated
    run,                    \* the requests since the last refrigeration
    closeCalls              \* the _close() calls so far

poolVars ==
    <<isWindows11, allowHeadless, quitting, windows, oldWindows,
      windowThreadInstances, wpc, served, requests, dispatcherQueue, quitPosted,
      mainpc, flushed, terminatedBy, parkedAt, run, closeCalls>>

VARIABLES
    \* ---- the notification icon of the same primary
    requestsTrayIcon,       \* _app.Logic().RequestsTrayIcon()
    isQuakeWindow,          \* Logic().IsQuakeWindow() of each record's window
    notificationIconShown,  \* _notificationIconShown
    iconpc,                 \* where a call of _checkWindowsForNotificationIcon stands
    needsIcon,              \* the local needsIcon of that call
    shell,                  \* what the last call asked of Shell_NotifyIconW
    \* ---- history, read by the properties only
    lastOsCall,             \* the last NIM_ADD or NIM_DELETE that was made
    scanned,                \* the setting and the windows the last call read
    sameInputs              \* the last call read what the call before it read

iconVars ==
    <<requestsTrayIcon, isQuakeWindow, notificationIconShown, iconpc, needsIcon,
      shell, lastOsCall, scanned, sameInputs>>

VARIABLES
    \* ---- the global hotkeys of the same primary
    hasWindow,              \* _window holds a handle
    globalHotkeys,          \* _app.Logic().GlobalHotkeys(), in its order
    hotkeyTable,            \* _hotkeys
    osHotkeys,              \* the ids and chords the OS holds for _window
    resyncQueue,            \* the _setupGlobalHotkeys() calls waiting to resume
    \* ---- history, read by the properties only
    resync,                 \* what the last resumed call found and did
    pressed                 \* the WM_HOTKEY messages so far, and what the last
                            \* one found and did

hotkeyVars ==
    <<hasWindow, globalHotkeys, hotkeyTable, osHotkeys, resyncQueue, resync,
      pressed>>

VARIABLES
    \* ---- the messages of the same primary's message window
    requestArgs,            \* the arguments of each _createNewWindowThread call
    \* ---- history, read by the properties only
    last,                   \* the message handled last and how it went
    hadException            \* a message before the last one threw

msgVars == <<requestArgs, last, hadException>>

VARIABLES
    \* ---- the main thread of the same primary, its dispatcher and the shell
    trayPc,                 \* HandleCommandlineArgs before or after line 220
    taskQueue,              \* the continuations queued on _dispatcher
    shellHasIcon,           \* the notification area holds the icon
    taskbarCreated,         \* a TaskbarCreated message waits in the queue
    events,                 \* the events from outside so far
    caller,                 \* who called _checkWindowsForNotificationIcon last,
                            \* for which thread, and the thread it runs on
    resumed                 \* the same of the _setupGlobalHotkeys() resumed last

trayVars ==
    <<trayPc, taskQueue, shellHasIcon, taskbarCreated, events, caller, resumed>>

VARIABLES
    \* ---- the locks of _windows and _oldWindows (til::shared_mutex)
    held                    \* the threads that hold each lock, and how

lockVars == <<held>>

VARIABLES
    \* ---- the settings directory of the same primary at its exit
    sweepPc,                \* HandleCommandlineArgs before or after line 255
    requiresPersistenceCleanupOnExit,   \* the member of that name
    layouts,                \* the actions of state.PersistedWindowLayouts()
    directory,              \* the names of the files of the settings directory
    \* ---- history, read by the properties only
    found                   \* the directory as the message loop left it

sweepVars ==
    <<sweepPc, requiresPersistenceCleanupOnExit, layouts, directory, found>>

vars ==
    <<codecVars, procVars, poolVars, iconVars, hotkeyVars, msgVars, trayVars,
      lockVars, sweepVars>>

(***************************************************************************)
(* The handoff codec.                                                      *)
(***************************************************************************)
\* the UTF-16 code units of the model's strings: a command line, an
\* environment block (NUL separated), a working directory
ArgUnits == {119, 372}
EnvUnits == {0, 65}
CwdUnits == {67}

StringsOver(units) == UNION {[1..n -> units] : n \in 0..MaxLen}

\* nCmdShow is an int: SW_SHOWNORMAL, and a negative one
ShowCommands == {1, -1}

\* a launch: GetCommandLineW(), the environment block without its final
\* double NUL, the current directory, and WinMain's nCmdShow
Payloads ==
    [args : StringsOver(ArgUnits), env : StringsOver(EnvUnits),
     cwd : StringsOver(CwdUnits), nCmdShow : ShowCommands]

\* the byte at offset i (from 0) of a buffer; a read at or past the end is
\* out of bounds and is told apart by the reads each operator reports
ByteAt(b, i) == IF i < Len(b) THEN b[i + 1] ELSE 0

\* reinterpret_cast<const uint8_t*>(str.data()): the code units in memory
StringBytes(str) ==
    [i \in 1..(SizeofWchar * Len(str)) |->
        IF i % 2 = 1 THEN str[(i + 1) \div 2] % 256 ELSE str[i \div 2] \div 256]

\* len * sizeof(wchar_t), a size_t of `bits` bits: the product modulo 2^bits. A value of
\* 2^31 or more is kept as huge.
SizeProduct(len, bits) ==
    LET lo2 == len.lo * SizeofWchar
        hi2 == len.hi * SizeofWchar + lo2 \div Half
        top == IF bits = 32 THEN 0 ELSE hi2 \div Half
        h   == hi2 % Half
        big == top > 0 \/ h >= 32768
    IN  [huge |-> big, n |-> IF big THEN 0 ELSE h * Half + (lo2 % Half)]

\* a < p, for a ptrdiff_t a >= 0 cast to size_t and a size_t product p
SizeLess(a, p) == p.huge \/ a < p.n

\* (mutant) the bytes written most significant first
serializeUint32BigEndian(out, value) ==
    out \o <<value.hi \div 256, value.hi % 256, value.lo \div 256, value.lo % 256>>

serializeUint32(out, value) ==
    out \o <<value.lo % 256, value.lo \div 256, value.hi % 256, value.hi \div 256>>

\* (mutant) no check of the bytes that are left
deserializeUint32Unchecked(b, it) ==
    [ok |-> TRUE, it |-> it + SizeofUint32,
     val |-> [lo |-> ByteAt(b, it) + 256 * ByteAt(b, it + 1),
              hi |-> ByteAt(b, it + 2) + 256 * ByteAt(b, it + 3)],
     reads |-> it..(it + SizeofUint32 - 1)]

deserializeUint32(b, it) ==
    IF Len(b) - it < SizeofUint32
    THEN [ok |-> FALSE, it |-> it, val |-> ToUint32(0), reads |-> {}]
    ELSE [ok |-> TRUE, it |-> it + SizeofUint32,
          val |-> [lo |-> ByteAt(b, it) + 256 * ByteAt(b, it + 1),
                   hi |-> ByteAt(b, it + 2) + 256 * ByteAt(b, it + 3)],
          reads |-> it..(it + SizeofUint32 - 1)]

serializeString(out, str, bits) ==
    LET len == ToUint32(Len(str))
        n   == SizeProduct(len, bits)
    IN  serializeUint32(out, len) \o SubSeq(StringBytes(str), 1, n.n)

\* a std::wstring_view into the buffer: the offset of its first byte and its
\* length in code units
EmptyView == [off |-> 0, len |-> ToUint32(0)]

\* (mutant) the length taken as a count of bytes, not of code units
deserializeStringUnscaled(b, it, bits) ==
    LET r == deserializeUint32(b, it)
        n == SizeProduct(r.val, bits)
    IN  IF ~r.ok
        THEN [ok |-> FALSE, it |-> it, str |-> EmptyView, reads |-> r.reads]
        ELSE IF r.val.hi > 0 \/ Len(b) - r.it < r.val.lo
        THEN [ok |-> FALSE, it |-> r.it, str |-> EmptyView, reads |-> r.reads]
        ELSE [ok |-> TRUE, it |-> r.it + r.val.lo,
              str |-> [off |-> r.it, len |-> r.val], reads |-> r.reads]

deserializeString(b, it, bits) ==
    LET r == deserializeUint32(b, it)
        n == SizeProduct(r.val, bits)
    IN  IF ~r.ok
        THEN [ok |-> FALSE, it |-> it, str |-> EmptyView, reads |-> r.reads]
        ELSE IF SizeLess(Len(b) - r.it, n)
        THEN [ok |-> FALSE, it |-> r.it, str |-> EmptyView, reads |-> r.reads]
        ELSE [ok |-> TRUE, it |-> r.it + n.n,
              str |-> [off |-> r.it, len |-> r.val], reads |-> r.reads]

\* (mutant) the working directory written before the environment block
serializeHandoffPayloadCwdFirst(p, bits) ==
    LET out1 == serializeString(<<>>, p.args, bits)
        out2 == serializeString(out1, p.cwd, bits)
        out3 == serializeString(out2, p.env, bits)
    IN  serializeUint32(out3, ToUint32(p.nCmdShow))

serializeHandoffPayload(p, bits) ==
    LET out1 == serializeString(<<>>, p.args, bits)
        out2 == serializeString(out1, p.env, bits)
        out3 == serializeString(out2, p.cwd, bits)
    IN  serializeUint32(out3, ToUint32(p.nCmdShow))

\* struct Handoff, with how the call ended, where `it` stood and which
\* offsets of the buffer were read
Thrown(it, reads) ==
    [status |-> "out_of_range", args |-> EmptyView, env |-> EmptyView,
     cwd |-> EmptyView, show |-> ToUint32(0), it |-> it, reads |-> reads]

deserializeHandoffPayload(b, bits) ==
    LET a == deserializeString(b, 0, bits)
        e == deserializeString(b, a.it, bits)
        c == deserializeString(b, e.it, bits)
        s == deserializeUint32(b, c.it)
    IN  IF ~a.ok THEN Thrown(a.it, a.reads)
        ELSE IF ~e.ok THEN Thrown(e.it, a.reads \cup e.reads)
        ELSE IF ~c.ok THEN Thrown(c.it, a.reads \cup e.reads \cup c.reads)
        ELSE IF ~s.ok THEN Thrown(s.it, a.reads \cup e.reads \cup c.reads \cup s.reads)
        ELSE [status |-> "ok", args |-> a.str, env |-> e.str, cwd |-> c.str,
              show |-> s.val, it |-> s.it,
              reads |-> a.reads \cup e.reads \cup c.reads \cup s.reads]

\* whether all bytes of a view lie inside the buffer (2 * len without any
\* wrap-around)
ViewInBounds(b, v) ==
    LET n == SizeProduct(v.len, 64)
    IN  ~n.huge /\ v.off + n.n <= Len(b)

\* winrt::hstring{ view }: the code units a view inside the buffer holds
ViewString(b, v) ==
    [i \in 1..(v.len.hi * Half + v.len.lo) |->
        ByteAt(b, v.off + SizeofWchar * (i - 1))
        + 256 * ByteAt(b, v.off + SizeofWchar * (i - 1) + 1)]

\* the handler's args, env, cwd and handoff.show of a deserialized buffer
HandoffStrings(b, h) ==
    [args |-> ViewString(b, h.args), env |-> ViewString(b, h.env),
     cwd |-> ViewString(b, h.cwd), nCmdShow |-> ToInt(h.show)]

NoHandoff == [status |-> "none"]

(***************************************************************************)
(* The launches. Each process runs HandleCommandlineArgs: unless it is in  *)
(* isolated mode it first runs acquireMutexOrAttemptHandoff.               *)
(***************************************************************************)
Procs == 1..NProcs

\* the command line, environment block, working directory and nCmdShow
\* process p was started with
LaunchPayload(p) ==
    [args |-> <<119, 32, 48 + p>>, env |-> <<65, 0>>, cwd |-> <<67>>, nCmdShow |-> 1]

\* CommandLineToArgvW of a command line without quotes: the runs of code
\* units between spaces
RECURSIVE SplitAt(_, _, _)
SplitAt(str, i, cur) ==
    LET done == IF cur = <<>> THEN <<>> ELSE <<cur>>
    IN  IF i > Len(str) THEN done
        ELSE IF str[i] = 32 THEN done \o SplitAt(str, i + 1, <<>>)
        ELSE SplitAt(str, i + 1, Append(cur, str[i]))

buildArgsFromCommandline(commandLine) == SplitAt(commandLine, 1, <<>>)

\* winrt::TerminalApp::CommandlineArgs{ args, cwd, showCommand, env }
\* (mutant) the environment for the working directory
CommandlineArgsEnvFirst(argv, cwd, show, env) ==
    [argv |-> argv, cwd |-> env, showCommand |-> show, env |-> cwd]

CommandlineArgs(argv, cwd, show, env) ==
    [argv |-> argv, cwd |-> cwd, showCommand |-> show, env |-> env]

\* for (DWORD sleep = 50; sleep < 10000; sleep += sleep / 2)
InitialSleep == 50
SleepLimit == 10000
LoopTest(s) == s < SleepLimit

\* (mutant) the delay doubled each time
NextSleepDoubled(s) == s + s

NextSleep(s) == s + s \div 2

\* if (!_app.Logic().IsolatedMode()) { mutex = acquireMutexOrAttemptHandoff(...) }
\* (mutant) the setting not looked at
SkipsSingleInstanceNever(isolatedMode) == FALSE

SkipsSingleInstance(isolatedMode) == isolatedMode

\* if (!mutex) { return; }, and else on to _createMessageWindow()
\* (mutant) no return
AfterAcquireNoReturn(got) == "create"

AfterAcquire(got) == IF got THEN "create" ELSE "returned"

\* CreateMutexW(nullptr, TRUE, name): a handle, and ERROR_ALREADY_EXISTS
\* when the named mutex existed
CreateMutexW(handles) ==
    [handle |-> TRUE,
     lastError |-> IF handles # {} THEN "ERROR_ALREADY_EXISTS" ELSE "ERROR_SUCCESS"]

\* if (GetLastError() == ERROR_ALREADY_EXISTS) mutex.reset(); if (mutex) return mutex;
\* (mutant) the last error not looked at
KeepsMutexUnchecked(r) == r.handle

KeepsMutex(r) == r.handle /\ r.lastError # "ERROR_ALREADY_EXISTS"

\* SendMessageTimeoutW returned 0: on to Sleep(sleep)
\* (mutant) return {}
AfterFailedSendGiveUp == "returned"

AfterFailedSend == "backoff"

InitProcs ==
    /\ pc = [p \in Procs |-> "start"]
    /\ isolated = [p \in Procs |-> FALSE]
    /\ sleep = [p \in Procs |-> 0]
    /\ mutexHandles = {}
    /\ mutex = [p \in Procs |-> FALSE]
    /\ hwnd = [p \in Procs |-> 0]
    /\ window = [p \in Procs |-> FALSE]
    /\ hotkeys = [p \in Procs |-> FALSE]
    /\ icon = [p \in Procs |-> FALSE]
    /\ threads = [p \in Procs |-> <<>>]
    /\ outcome = [p \in Procs |-> "none"]
    /\ attempts = [p \in Procs |-> 0]
    /\ searches = [p \in Procs |-> 0]
    /\ delays = [p \in Procs |-> <<>>]
    /\ sendFailed = [p \in Procs |-> FALSE]

\* HandleCommandlineArgs up to the single-instance step: ReloadSettings(),
\* IsolatedMode(), and the loop's first test
Launch(p) ==
    /\ pc[p] = "start"
    /\ \E isolatedMode \in BOOLEAN :
          /\ isolated' = [isolated EXCEPT ![p] = isolatedMode]
          /\ IF SkipsSingleInstance(isolatedMode)
             THEN /\ pc' = [pc EXCEPT ![p] = "create"]
                  /\ outcome' = [outcome EXCEPT ![p] = "BecamePrimary"]
                  /\ sleep' = sleep
             ELSE /\ sleep' = [sleep EXCEPT ![p] = InitialSleep]
                  /\ IF LoopTest(InitialSleep)
                     THEN /\ pc' = [pc EXCEPT ![p] = "mutex"]
                          /\ outcome' = outcome
                     ELSE /\ pc' = [pc EXCEPT ![p] = AfterAcquire(FALSE)]
                          /\ outcome' = [outcome EXCEPT ![p] = "HandoffFailed"]
    /\ UNCHANGED <<mutexHandles, mutex, hwnd, window, hotkeys, icon, threads,
                   attempts, searches, delays, sendFailed>>

\* CreateMutexW gave a handle: the mutex is new and the process is the
\* primary, or it existed and the handle is to be reset
TryCreateMutex(p) ==
    /\ pc[p] = "mutex"
    /\ attempts' = [attempts EXCEPT ![p] = @ + 1]
    /\ mutexHandles' = mutexHandles \cup {p}
    /\ IF KeepsMutex(CreateMutexW(mutexHandles))
       THEN /\ mutex' = [mutex EXCEPT ![p] = TRUE]
            /\ pc' = [pc EXCEPT ![p] = AfterAcquire(TRUE)]
            /\ outcome' = [outcome EXCEPT ![p] = "BecamePrimary"]
       ELSE /\ pc' = [pc EXCEPT ![p] = "reset"]
            /\ UNCHANGED <<mutex, outcome>>
    /\ UNCHANGED <<isolated, sleep, hwnd, window, hotkeys, icon, threads,
                   searches, delays, sendFailed>>

\* CreateMutexW gave no handle: the mutex exists and may not be opened
CreateMutexDenied(p) ==
    /\ pc[p] = "mutex"
    /\ mutexHandles # {}
    /\ attempts' = [attempts EXCEPT ![p] = @ + 1]
    /\ pc' = [pc EXCEPT ![p] = "find"]
    /\ UNCHANGED <<isolated, sleep, mutexHandles, mutex, hwnd, window, hotkeys,
                   icon, threads, outcome, searches, delays, sendFailed>>

\* mutex.reset()
ResetMutex(p) ==
    /\ pc[p] = "reset"
    /\ mutexHandles' = mutexHandles \ {p}
    /\ pc' = [pc EXCEPT ![p] = "find"]
    /\ UNCHANGED <<isolated, sleep, mutex, hwnd, window, hotkeys, icon, threads,
                   outcome, attempts, searches, delays, sendFailed>>

\* FindWindowW(TERMINAL_MESSAGE_CLASS_NAME, nullptr): a window of the class,
\* or nullptr when there is none (yet)
FindWindow(p) ==
    /\ pc[p] = "find"
    /\ searches' = [searches EXCEPT ![p] = @ + 1]
    /\ IF \E q \in Procs : window[q]
       THEN /\ \E q \in {r \in Procs : window[r]} : hwnd' = [hwnd EXCEPT ![p] = q]
            /\ pc' = [pc EXCEPT ![p] = "send"]
       ELSE /\ hwnd' = [hwnd EXCEPT ![p] = 0]
            /\ pc' = [pc EXCEPT ![p] = "backoff"]
    /\ UNCHANGED <<isolated, sleep, mutexHandles, mutex, window, hotkeys, icon,
                   threads, outcome, attempts, delays, sendFailed>>

\* the sender's SendMessageTimeoutW(hwnd, WM_COPYDATA, ...) meets the
\* receiver's _messageHandler, WM_COPYDATA: the payload is deserialized and
\* a window is requested. The sender is answered in time (return {}) or has
\* timed out meanwhile.
HandleCopyData(q, p, inTime) ==
    /\ pc[p] = "send" /\ hwnd[p] = q
    /\ pc[q] = "loop" /\ window[q]
    /\ Len(threads[q]) <= MaxHandoffs
    /\ \E bits \in SizeBitsOfBuilds :
       LET data == serializeHandoffPayload(LaunchPayload(p), bits)
           h    == deserializeHandoffPayload(data, bits)
           got  == HandoffStrings(data, h)
       IN  threads' =
             IF h.status = "ok"
             THEN [threads EXCEPT ![q] = Append(@,
                      CommandlineArgs(buildArgsFromCommandline(got.args), got.cwd,
                                      h.show, got.env))]
             ELSE threads
    /\ IF inTime
       THEN /\ pc' = [pc EXCEPT ![p] = AfterAcquire(FALSE)]
            /\ outcome' = [outcome EXCEPT ![p] = "HandoffSucceeded"]
            /\ sendFailed' = sendFailed
       ELSE /\ pc' = [pc EXCEPT ![p] = AfterFailedSend]
            /\ outcome' = [outcome EXCEPT ![p] =
                              IF AfterFailedSend = "returned" THEN "HandoffFailed" ELSE @]
            /\ sendFailed' = [sendFailed EXCEPT ![p] = TRUE]
    /\ hwnd' = [hwnd EXCEPT ![p] = 0]
    /\ UNCHANGED <<isolated, sleep, mutexHandles, mutex, window, hotkeys,
                   icon, attempts, searches, delays>>

\* SendMessageTimeoutW returned 0 and the receiver never saw the message:
\* it is hung or not yet in its message loop (10 s), or it is gone
SendFails(p) ==
    /\ pc[p] = "send"
    /\ sendFailed' = [sendFailed EXCEPT ![p] = TRUE]
    /\ pc' = [pc EXCEPT ![p] = AfterFailedSend]
    /\ outcome' = [outcome EXCEPT ![p] =
                      IF AfterFailedSend = "returned" THEN "HandoffFailed" ELSE @]
    /\ hwnd' = [hwnd EXCEPT ![p] = 0]
    /\ UNCHANGED <<isolated, sleep, mutexHandles, mutex, window, hotkeys,
                   icon, threads, attempts, searches, delays>>

\* Sleep(sleep); sleep += sleep / 2; sleep < 10000, or return {}
Backoff(p) ==
    /\ pc[p] = "backoff"
    /\ delays' = [delays EXCEPT ![p] = Append(@, sleep[p])]
    /\ sleep' = [sleep EXCEPT ![p] = NextSleep(@)]
    /\ IF LoopTest(NextSleep(sleep[p]))
       THEN /\ pc' = [pc EXCEPT ![p] = "mutex"]
            /\ outcome' = outcome
       ELSE /\ pc' = [pc EXCEPT ![p] = AfterAcquire(FALSE)]
            /\ outcome' = [outcome EXCEPT ![p] = "HandoffFailed"]
    /\ UNCHANGED <<isolated, mutexHandles, mutex, hwnd, window, hotkeys, icon,
                   threads, attempts, searches, sendFailed>>

\* _createMessageWindow()
CreateMessageWindow(p) ==
    /\ pc[p] = "create"
    /\ window' = [window EXCEPT ![p] = TRUE]
    /\ pc' = [pc EXCEPT ![p] = "setup"]
    /\ UNCHANGED <<isolated, sleep, mutexHandles, mutex, hwnd, hotkeys, icon,
                   threads, outcome, attempts, searches, delays, sendFailed>>

\* _setupGlobalHotkeys(), _checkWindowsForNotificationIcon() and the window
\* of the process' own command line, up to the message loop
Setup(p) ==
    /\ pc[p] = "setup"
    /\ hotkeys' = [hotkeys EXCEPT ![p] = TRUE]
    /\ icon' = [icon EXCEPT ![p] = TRUE]
    /\ LET own == LaunchPayload(p)
       IN  threads' = [threads EXCEPT ![p] = Append(@,
                          CommandlineArgs(buildArgsFromCommandline(own.args), own.cwd,
                                          ToUint32(own.nCmdShow), own.env))]
    /\ pc' = [pc EXCEPT ![p] = "loop"]
    /\ UNCHANGED <<isolated, sleep, mutexHandles, mutex, hwnd, window, outcome,
                   attempts, searches, delays, sendFailed>>

\* the message loop ends (WM_QUIT): _finalizeSessionPersistence() and
\* TerminateProcess(); the window, the handles and the window threads of the
\* process are gone
Exit(p) ==
    /\ pc[p] = "loop"
    /\ window' = [window EXCEPT ![p] = FALSE]
    /\ mutex' = [mutex EXCEPT ![p] = FALSE]
    /\ mutexHandles' = mutexHandles \ {p}
    /\ pc' = [pc EXCEPT ![p] = "exited"]
    /\ threads' = [threads EXCEPT ![p] = <<>>]
    /\ UNCHANGED <<isolated, sleep, hwnd, hotkeys, icon, outcome,
                   attempts, searches, delays, sendFailed>>

(***************************************************************************)
(* The window pool and the shutdown of one primary process. The main       *)
(* thread runs _createNewWindowThread and the message loop; every record   *)
(* has a window thread that runs the lambda of _createNewWindowThread.     *)
(* WindowThread itself (KeepWarm, Microwave, Refrigerate, RunMessagePump)  *)
(* is modelled from the specification: a refrigerated record waits in      *)
(* KeepWarm until Microwave hands it a request.                            *)
(***************************************************************************)
\* one more than the requests, so that a record is left for every request
Records == 1..(MaxRequests + 1)

Range(f) == {f[i] : i \in DOMAIN f}

\* _windowThreadInstances is a std::atomic<uint32_t> without an initializer;
\* the file needs C++20 (designated initializers), where it starts at zero
CountAtConstruction == ToUint32(0)

\* v - 1 in 32 bits
Dec32(v) ==
    IF v.lo > 0 THEN [hi |-> v.hi, lo |-> v.lo - 1]
    ELSE IF v.hi > 0 THEN [hi |-> v.hi - 1, lo |-> Half - 1]
    ELSE [hi |-> Half - 1, lo |-> Half - 1]

\* _windowThreadInstances.fetch_sub(1, std::memory_order_relaxed)
FetchSub1(v) == [old |-> v, new |-> Dec32(v)]

\* noMoreWindows && (_quitting || quitWhenLastWindowExits)
\* (mutant) noMoreWindows not looked at
QuitsOnDecrementAlways(old, headless, quit) == quit \/ ~headless

QuitsOnDecrement(old, headless, quit) ==
    LET quitWhenLastWindowExits == ~headless
        noMoreWindows == old = ToUint32(1)
    IN  noMoreWindows /\ (quit \/ quitWhenLastWindowExits)

\* _close(): co_await wil::resume_foreground(_dispatcher); PostQuitMessage(0)
\* (mutant) the process ended where _close() was called
CloseTerminates == "TerminateProcess"

Close == "resume_foreground"

\* window = std::move(fridge->back()); fridge->pop_back()
\* (mutant) the front taken
FridgePopFront(fridge) == [window |-> Head(fridge), rest |-> Tail(fridge)]

FridgePop(fridge) ==
    [window |-> fridge[Len(fridge)], rest |-> SubSeq(fridge, 1, Len(fridge) - 1)]

\* if (!fridge->empty()) { ... }: the record taken (0 for none) and the
\* fridge left
\* (mutant) the fridge not looked at
TakeFromFridgeNever(fridge) == [window |-> 0, rest |-> fridge]

TakeFromFridge(fridge) ==
    IF fridge # <<>> THEN FridgePop(fridge) ELSE [window |-> 0, rest |-> fridge]

\* if (window) { window->Microwave(args); return; }: whether the call goes
\* on to std::thread t(...)
\* (mutant) no return
SpawnsAfterAlways(w) == TRUE

SpawnsAfter(w) == w = 0

\* if (Utils::IsWindows11()) { decrementWindowCount.reset(); break; }
\* else { Refrigerate(); decrementWindowCount.reset(); fridge->push_back(window); }
\* (mutant) the push_back on both sides
AfterPumpParksToo(win11) ==
    [refrigerates |-> ~win11, decrements |-> TRUE, parks |-> TRUE, leaves |-> win11]

\* (mutant) no decrementWindowCount.reset() on the else side
AfterPumpKeepsCount(win11) ==
    [refrigerates |-> ~win11, decrements |-> win11, parks |-> ~win11, leaves |-> win11]

\* (mutant) the two sides of Utils::IsWindows11() exchanged
AfterPumpSwapped(win11) ==
    [refrigerates |-> win11, decrements |-> TRUE, parks |-> win11, leaves |-> ~win11]

AfterPump(win11) ==
    [refrigerates |-> ~win11, decrements |-> TRUE, parks |-> ~win11, leaves |-> win11]

\* (mutant) the predicate never matches
EraseIfNever(list, id) == list

\* std::erase_if(*lockedWindows, w->PeasantID() == senderID)
RECURSIVE EraseIf(_, _)
EraseIf(list, id) ==
    IF list = <<>> THEN <<>>
    ELSE IF Head(list) = id THEN EraseIf(Tail(list), id)
    ELSE <<Head(list)>> \o EraseIf(Tail(list), id)

\* the records whose thread was started
Started == {t \in Records : wpc[t] # "unborn"}

\* the record of the next std::make_shared<WindowThread>
NewRecord == CHOOSE t \in Records : wpc[t] = "unborn" /\ \A u \in 1..(t - 1) : wpc[u] # "unborn"

\* the process has not been terminated
Alive == mainpc # "exited"

\* the turn of the next refrigeration
Turn ==
    LET turns == {parkedAt[t] : t \in Records}
    IN  1 + (CHOOSE m \in turns : \A n \in turns : n <= m)

\* a primary with no window open: its counter at count, and its first cold
\* records in the fridge
PoolWith(win11, headless, count, cold) ==
    /\ isWindows11 = win11
    /\ allowHeadless = headless
    /\ quitting = FALSE
    /\ windows = <<>>
    /\ oldWindows = [i \in 1..cold |-> i]
    /\ windowThreadInstances = count
    /\ wpc = [t \in Records |-> IF t <= cold THEN "cold" ELSE "unborn"]
    /\ served = [t \in Records |-> <<>>]
    /\ requests = 0
    /\ dispatcherQueue = 0
    /\ quitPosted = FALSE
    /\ mainpc = "loop"
    /\ flushed = FALSE
    /\ terminatedBy = "none"
    /\ parkedAt = [t \in Records |-> IF t <= cold THEN t ELSE 0]
    /\ run = [w |-> cold, reused |-> 0, spawned |-> 0]
    /\ closeCalls = 0

\* a primary after WindowEmperor's construction and before its first request
PoolAtConstruction(win11, headless) ==
    PoolWith(win11, headless, CountAtConstruction, 0)

\* the pool of the other specifications, which never use it
PoolIdle == PoolAtConstruction(FALSE, FALSE)

\* a refrigerated record that Microwave has handed a request: it was taken
\* out of _oldWindows
Reheated(t) == wpc[t] = "cold" /\ t \notin Range(oldWindows)

\* _createNewWindowThread(args), on the main thread: a refrigerated record
\* is reheated, or a thread is started for a new one
CreateNewWindowThread ==
    /\ mainpc = "loop" /\ requests < MaxRequests
    /\ LET args   == requests + 1
           got    == TakeFromFridge(oldWindows)
           spawns == SpawnsAfter(got.window)
           t      == NewRecord
       IN  /\ requests' = args
           /\ oldWindows' = got.rest
           /\ served' = [u \in Records |->
                 served[u] \o (IF u = got.window THEN <<args>> ELSE <<>>)
                           \o (IF spawns /\ u = t THEN <<args>> ELSE <<>>)]
           /\ wpc' = IF spawns THEN [wpc EXCEPT ![t] = "started"] ELSE wpc
           /\ run' = [run EXCEPT !.reused = @ + (IF got.window # 0 THEN 1 ELSE 0),
                                 !.spawned = @ + (IF spawns THEN 1 ELSE 0)]
    /\ UNCHANGED <<isWindows11, allowHeadless, quitting, windows,
                   windowThreadInstances, dispatcherQueue, quitPosted, mainpc,
                   flushed, terminatedBy, parkedAt, closeCalls>>

\* the window thread: CreateHost() and the callback on its first pass,
\* KeepWarm() (once reheated, on the later ones), and push_back into _windows
Publish(t) ==
    /\ Alive
    /\ wpc[t] = "started" \/ Reheated(t)
    /\ windows' = Append(windows, t)
    /\ wpc' = [wpc EXCEPT ![t] = "pump"]
    /\ UNCHANGED <<isWindows11, allowHeadless, quitting, oldWindows,
                   windowThreadInstances, served, requests, dispatcherQueue,
                   quitPosted, mainpc, flushed, terminatedBy, parkedAt, run,
                   closeCalls>>

\* RunMessagePump() returns: the window was closed
LeavePump(t) ==
    /\ Alive
    /\ wpc[t] = "pump"
    /\ wpc' = [wpc EXCEPT ![t] = "remove"]
    /\ UNCHANGED <<isWindows11, allowHeadless, quitting, windows, oldWindows,
                   windowThreadInstances, served, requests, dispatcherQueue,
                   quitPosted, mainpc, flushed, terminatedBy, parkedAt, run,
                   closeCalls>>

\* removeWindow.reset(): _removeWindow(window->PeasantID())
RemoveWindow(t) ==
    /\ Alive
    /\ wpc[t] = "remove"
    /\ windows' = EraseIf(windows, t)
    /\ wpc' = [wpc EXCEPT ![t] = "policy"]
    /\ UNCHANGED <<isWindows11, allowHeadless, quitting, oldWindows,
                   windowThreadInstances, served, requests, dispatcherQueue,
                   quitPosted, mainpc, flushed, terminatedBy, parkedAt, run,
                   closeCalls>>

\* either side of if (Utils::IsWindows11()) up to decrementWindowCount.reset():
\* Refrigerate() on the else side, then _decrementWindowCount()
DecrementWindowCount(t) ==
    /\ Alive
    /\ wpc[t] = "policy"
    /\ LET counts == AfterPump(isWindows11).decrements
           sub    == FetchSub1(windowThreadInstances)
           quits  == counts /\ QuitsOnDecrement(sub.old, allowHeadless, quitting)
       IN  /\ windowThreadInstances' = IF counts THEN sub.new ELSE windowThreadInstances
           /\ closeCalls' = closeCalls + (IF quits THEN 1 ELSE 0)
           /\ IF quits /\ Close = "TerminateProcess"
              THEN /\ mainpc' = "exited"
                   /\ terminatedBy' = "window"
                   /\ dispatcherQueue' = dispatcherQueue
              ELSE /\ dispatcherQueue' = dispatcherQueue + (IF quits THEN 1 ELSE 0)
                   /\ UNCHANGED <<mainpc, terminatedBy>>
    /\ wpc' = [wpc EXCEPT ![t] = IF AfterPump(isWindows11).parks THEN "park" ELSE "rundown"]
    /\ UNCHANGED <<isWindows11, allowHeadless, quitting, windows, oldWindows,
                   served, requests, quitPosted, flushed, parkedAt, run>>

\* fridge->push_back(window), and back to KeepWarm()
Park(t) ==
    /\ Alive
    /\ wpc[t] = "park"
    /\ oldWindows' = Append(oldWindows, t)
    /\ parkedAt' = [parkedAt EXCEPT ![t] = Turn]
    /\ run' = [w |-> Len(oldWindows) + 1, reused |-> 0, spawned |-> 0]
    /\ wpc' = [wpc EXCEPT ![t] = IF AfterPump(isWindows11).leaves THEN "rundown" ELSE "cold"]
    /\ UNCHANGED <<isWindows11, allowHeadless, quitting, windows,
                   windowThreadInstances, served, requests, dispatcherQueue,
                   quitPosted, mainpc, flushed, terminatedBy, closeCalls>>

\* break, RundownForExit() and the end of the thread
Rundown(t) ==
    /\ Alive
    /\ wpc[t] = "rundown"
    /\ wpc' = [wpc EXCEPT ![t] = "terminated"]
    /\ UNCHANGED <<isWindows11, allowHeadless, quitting, windows, oldWindows,
                   windowThreadInstances, served, requests, dispatcherQueue,
                   quitPosted, mainpc, flushed, terminatedBy, parkedAt, run,
                   closeCalls>>

\* _close() resumes on the main thread: PostQuitMessage(0)
ResumeClose ==
    /\ mainpc = "loop"
    /\ dispatcherQueue > 0
    /\ dispatcherQueue' = dispatcherQueue - 1
    /\ quitPosted' = TRUE
    /\ UNCHANGED <<isWindows11, allowHeadless, quitting, windows, oldWindows,
                   windowThreadInstances, wpc, served, requests, mainpc, flushed,
                   terminatedBy, parkedAt, run, closeCalls>>

\* GetMessageW returns 0 for WM_QUIT: the message loop ends
LeaveMessageLoop ==
    /\ mainpc = "loop"
    /\ quitPosted
    /\ mainpc' = "finalize"
    /\ UNCHANGED <<isWindows11, allowHeadless, quitting, windows, oldWindows,
                   windowThreadInstances, wpc, served, requests, dispatcherQueue,
                   quitPosted, flushed, terminatedBy, parkedAt, run, closeCalls>>

\* _finalizeSessionPersistence(): state.Flush() and the sweep
FinalizeSessionPersistence ==
    /\ mainpc = "finalize"
    /\ flushed' = TRUE
    /\ mainpc' = "terminate"
    /\ UNCHANGED <<isWindows11, allowHeadless, quitting, windows, oldWindows,
                   windowThreadInstances, wpc, served, requests, dispatcherQueue,
                   quitPosted, terminatedBy, parkedAt, run, closeCalls>>

\* TerminateProcess(GetCurrentProcess(), 0)
TerminateProcess ==
    /\ mainpc = "terminate"
    /\ mainpc' = "exited"
    /\ terminatedBy' = "main"
    /\ UNCHANGED <<isWindows11, allowHeadless, quitting, windows, oldWindows,
                   windowThreadInstances, wpc, served, requests, dispatcherQueue,
                   quitPosted, flushed, parkedAt, run, closeCalls>>

(***************************************************************************)
(* Exceptions in a window thread: the try { } CATCH_LOG() of its body.     *)
(***************************************************************************)
\* the scope_exits that are armed while RunMessagePump() runs, which the
\* unwinding runs last declared first
\* (mutant) neither scope_exit armed
UnwindsNothing == [decrementWindowCount |-> FALSE, removeWindow |-> FALSE]

\* (mutant) removeWindow not armed
UnwindsCountOnly == [decrementWindowCount |-> TRUE, removeWindow |-> FALSE]

Unwinds == [decrementWindowCount |-> TRUE, removeWindow |-> TRUE]

\* window->CreateHost() throws: no scope_exit is armed yet, CATCH_LOG() and
\* the end of the thread
ThrowInCreateHost(t) ==
    /\ Alive
    /\ wpc[t] = "started"
    /\ wpc' = [wpc EXCEPT ![t] = "caught"]
    /\ UNCHANGED <<isWindows11, allowHeadless, quitting, windows, oldWindows,
                   windowThreadInstances, served, requests, dispatcherQueue,
                   quitPosted, mainpc, flushed, terminatedBy, parkedAt, run,
                   closeCalls>>

\* window->RunMessagePump() throws
ThrowInPump(t) ==
    /\ Alive
    /\ wpc[t] = "pump"
    /\ wpc' = [wpc EXCEPT ![t] = "unwind"]
    /\ UNCHANGED <<isWindows11, allowHeadless, quitting, windows, oldWindows,
                   windowThreadInstances, served, requests, dispatcherQueue,
                   quitPosted, mainpc, flushed, terminatedBy, parkedAt, run,
                   closeCalls>>

\* the unwinding destroys decrementWindowCount: _decrementWindowCount()
UnwindDecrement(t) ==
    /\ Alive
    /\ wpc[t] = "unwind"
    /\ LET counts == Unwinds.decrementWindowCount
           sub    == FetchSub1(windowThreadInstances)
           quits  == counts /\ QuitsOnDecrement(sub.old, allowHeadless, quitting)
       IN  /\ windowThreadInstances' = IF counts THEN sub.new ELSE windowThreadInstances
           /\ closeCalls' = closeCalls + (IF quits THEN 1 ELSE 0)
           /\ dispatcherQueue' = dispatcherQueue + (IF quits THEN 1 ELSE 0)
    /\ wpc' = [wpc EXCEPT ![t] = "unwound"]
    /\ UNCHANGED <<isWindows11, allowHeadless, quitting, windows, oldWindows,
                   served, requests, quitPosted, mainpc, flushed, terminatedBy,
                   parkedAt, run>>

\* then removeWindow: _removeWindow(window->PeasantID()); CATCH_LOG() and
\* the end of the thread
UnwindRemove(t) ==
    /\ Alive
    /\ wpc[t] = "unwound"
    /\ windows' = IF Unwinds.removeWindow THEN EraseIf(windows, t) ELSE windows
    /\ wpc' = [wpc EXCEPT ![t] = "caught"]
    /\ UNCHANGED <<isWindows11, allowHeadless, quitting, oldWindows,
                   windowThreadInstances, served, requests, dispatcherQueue,
                   quitPosted, mainpc, flushed, terminatedBy, parkedAt, run,
                   closeCalls>>

(***************************************************************************)
(* The notification icon.                                                  *)
(***************************************************************************)
\* for (const auto& _windowThread : *windows)
\*     needsIcon |= _windowThread->Logic().IsQuakeWindow();
RECURSIVE OrQuake(_, _, _)
OrQuake(acc, ws, quake) ==
    IF ws = <<>> THEN acc
    ELSE OrQuake(acc \/ quake[Head(ws)], Tail(ws), quake)

\* bool needsIcon = _app.Logic().RequestsTrayIcon(); and the loop over _windows
\* (mutant) the loop alone
NeedsIconOfWindows(tray, ws, quake) == OrQuake(FALSE, ws, quake)

NeedsIcon(tray, ws, quake) == OrQuake(tray, ws, quake)

\* if (_notificationIconShown == needsIcon) return; if (needsIcon) NIM_ADD ...
\* else NIM_DELETE
\* (mutant) no early return
ShellCallAlways(shown, needs) ==
    IF needs THEN "NIM_ADD" ELSE "NIM_DELETE"

ShellCall(shown, needs) ==
    IF shown = needs THEN "return"
    ELSE IF needs THEN "NIM_ADD" ELSE "NIM_DELETE"

\* what a call reads: the setting and IsQuakeWindow() of the records of
\* _windows, in the order of the list
NotScanned == [tray |-> FALSE, quake |-> <<>>, read |-> FALSE]

Inputs(tray, ws, quake) ==
    [tray |-> tray, quake |-> [i \in 1..Len(ws) |-> quake[ws[i]]], read |-> TRUE]

\* NOTIFYICONDATA _notificationIcon{}; bool _notificationIconShown = false;
IconAtConstruction(tray) ==
    /\ requestsTrayIcon = tray
    /\ isQuakeWindow = [t \in Records |-> FALSE]
    /\ notificationIconShown = FALSE
    /\ iconpc = "idle"
    /\ needsIcon = FALSE
    /\ shell = "none"
    /\ lastOsCall = "none"
    /\ scanned = NotScanned
    /\ sameInputs = FALSE

IconIdle == IconAtConstruction(FALSE)

\* the settings are reloaded: the handler of SettingsChanged calls
\* _checkWindowsForNotificationIcon() with the new setting
SettingsChanged ==
    /\ Alive
    /\ iconpc = "idle"
    /\ \E tray \in BOOLEAN : requestsTrayIcon' = tray
    /\ iconpc' = "called"
    /\ UNCHANGED <<isQuakeWindow, notificationIconShown, needsIcon, shell,
                   lastOsCall, scanned, sameInputs>>

\* the other callers: the start of the primary, TaskbarCreated, and
\* _windowIsQuakeWindowChanged once it has resumed on the main thread
CheckWindowsForNotificationIcon ==
    /\ Alive
    /\ iconpc = "idle"
    /\ iconpc' = "called"
    /\ UNCHANGED <<requestsTrayIcon, isQuakeWindow, notificationIconShown,
                   needsIcon, shell, lastOsCall, scanned, sameInputs>>

\* the window of a record that runs enters or leaves quake mode
QuakeWindowChanged(t) ==
    /\ Alive
    /\ wpc[t] = "pump"
    /\ isQuakeWindow' = [isQuakeWindow EXCEPT ![t] = ~isQuakeWindow[t]]
    /\ UNCHANGED <<requestsTrayIcon, notificationIconShown, iconpc, needsIcon,
                   shell, lastOsCall, scanned, sameInputs>>

\* RequestsTrayIcon() and the loop over _windows under lock_shared()
ScanWindows ==
    /\ Alive
    /\ iconpc = "called"
    /\ needsIcon' = NeedsIcon(requestsTrayIcon, windows, isQuakeWindow)
    /\ iconpc' = "scanned"
    /\ scanned' = Inputs(requestsTrayIcon, windows, isQuakeWindow)
    /\ sameInputs' = (scanned' = scanned)
    /\ UNCHANGED <<requestsTrayIcon, isQuakeWindow, notificationIconShown, shell,
                   lastOsCall>>

\* the comparison with _notificationIconShown, Shell_NotifyIconW and
\* _notificationIconShown = needsIcon
ApplyIcon ==
    /\ Alive
    /\ iconpc = "scanned"
    /\ shell' = ShellCall(notificationIconShown, needsIcon)
    /\ notificationIconShown' = needsIcon
    /\ iconpc' = "idle"
    /\ lastOsCall' = IF shell' = "return" THEN lastOsCall ELSE shell'
    /\ UNCHANGED <<requestsTrayIcon, isQuakeWindow, needsIcon, scanned, sameInputs>>

(***************************************************************************)
(* The global hotkeys.                                                     *)
(***************************************************************************)
Chords == 1..NChords

\* a binding of the settings: a key chord and whether its command carries
\* GlobalSummonArgs; the loop skips a binding that does not, whatever its
\* chord, so that one such binding (chord 0) stands for all of them
OtherBinding == [chord |-> 0, summon |-> FALSE]

Bindings == [chord : Chords, summon : {TRUE}] \cup {OtherBinding}

\* GlobalHotkeys() is a map keyed by the chord: no chord twice
Distinct(bs) == \A i, j \in 1..Len(bs) : bs[i].chord = bs[j].chord => i = j

BindingLists ==
    {bs \in UNION {[1..n -> Bindings] : n \in 0..MaxBindings} : Distinct(bs)}

\* if (!_window) co_return;
\* (mutant) no check of _window
ReturnsEarlyNever(w) == FALSE

ReturnsEarly(w) == ~w

\* ::UnregisterHotKey(_window.get(), index): fails for an id that is not held
UnregisterHotKey(os, index) ==
    [ok |-> \E e \in os : e.id = index,
     os |-> {e \in os : e.id # index}]

\* ::RegisterHotKey(_window.get(), index, hotkeyFlags, vkey): fails for a chord
\* that something else has bound
RegisterHotKey(os, index, chord, taken) ==
    [ok |-> chord \notin taken,
     os |-> IF chord \in taken THEN os ELSE os \cup {[id |-> index, chord |-> chord]}]

\* for (auto i = 0, count = gsl::narrow_cast<int>(_hotkeys.size()); i < count; ++i)
\*     _unregisterHotKey(i);
RECURSIVE UnregisterAll(_, _, _, _)
UnregisterAll(i, count, os, calls) ==
    IF i < count
    THEN LET r == UnregisterHotKey(os, i)
         IN  UnregisterAll(i + 1, count, r.os,
                           Append(calls, [op |-> "unregister", id |-> i,
                                          chord |-> 0, ok |-> r.ok]))
    ELSE [os |-> os, calls |-> calls]

\* auto index = gsl::narrow_cast<int>(_hotkeys.size());
\* (mutant) the ids from 1
IndexFromOne(table) == Len(table) + 1

Index(table) == Len(table)

\* _hotkeys.emplace_back(summonArgs), whatever _registerHotKey returned
\* (mutant) the entry for a registration that succeeded only
EmplaceBackIfSucceeded(table, chord, succeeded) ==
    IF succeeded THEN Append(table, chord) ELSE table

EmplaceBack(table, chord, succeeded) == Append(table, chord)

\* for (const auto& [keyChord, cmd] : _app.Logic().GlobalHotkeys())
\*     if (auto summonArgs = ...try_as<GlobalSummonArgs>()) { ... }
RECURSIVE RegisterAll(_, _, _, _, _)
RegisterAll(bs, table, os, calls, taken) ==
    IF bs = <<>> THEN [table |-> table, os |-> os, calls |-> calls]
    ELSE IF Head(bs).summon
    THEN LET index == Index(table)
             r     == RegisterHotKey(os, index, Head(bs).chord, taken)
         IN  RegisterAll(Tail(bs), EmplaceBack(table, Head(bs).chord, r.ok), r.os,
                         Append(calls, [op |-> "register", id |-> index,
                                        chord |-> Head(bs).chord, ok |-> r.ok]),
                         taken)
    ELSE RegisterAll(Tail(bs), table, os, calls, taken)

\* the body of _setupGlobalHotkeys after it has resumed
SetupGlobalHotkeysBody(w, table, os, bs, taken) ==
    IF ReturnsEarly(w) THEN [table |-> table, os |-> os, calls |-> <<>>]
    ELSE LET u == UnregisterAll(0, Len(table), os, <<>>)
         IN  RegisterAll(bs, <<>>, u.os, u.calls, taken)

NoResync == [resumed |-> FALSE, calls |-> <<>>]

NoPress == [count |-> 0, index |-> 0, size |-> 0, read |-> "none", chord |-> 0]

\* the members at construction, _window as _createMessageWindow left it
HotkeysAtConstruction(w, bs) ==
    /\ hasWindow = w
    /\ globalHotkeys = bs
    /\ hotkeyTable = <<>>
    /\ osHotkeys = {}
    /\ resyncQueue = 0
    /\ resync = NoResync
    /\ pressed = NoPress

HotkeysIdle == HotkeysAtConstruction(TRUE, <<>>)

\* the settings are reloaded with other bindings
GlobalHotkeysChanged ==
    /\ \E bs \in BindingLists : globalHotkeys' = bs
    /\ UNCHANGED <<hasWindow, hotkeyTable, osHotkeys, resyncQueue, resync,
                   pressed>>

\* _setupGlobalHotkeys() up to co_await wil::resume_foreground(_dispatcher)
SetupGlobalHotkeys ==
    /\ resyncQueue < MaxResyncs
    /\ resyncQueue' = resyncQueue + 1
    /\ UNCHANGED <<hasWindow, globalHotkeys, hotkeyTable, osHotkeys, resync,
                   pressed>>

\* _setupGlobalHotkeys() from there on, on the main thread
ResumeSetupGlobalHotkeys ==
    /\ resyncQueue > 0
    /\ resyncQueue' = resyncQueue - 1
    /\ \E taken \in SUBSET Chords :
          LET r == SetupGlobalHotkeysBody(hasWindow, hotkeyTable, osHotkeys,
                                          globalHotkeys, taken)
          IN  /\ hotkeyTable' = r.table
              /\ osHotkeys' = r.os
              /\ resync' = [resumed |-> TRUE, calls |-> r.calls]
    /\ UNCHANGED <<hasWindow, globalHotkeys, pressed>>

\* the values of static_cast<long>(wParam) of a WM_HOTKEY message: the ids
\* the OS holds, and what another sender or an earlier table leaves
HotkeyIndices == -1..(MaxBindings + 1)

\* if (hotkeyIndex < 0 || static_cast<size_t>(hotkeyIndex) > _hotkeys.size())
\*     return;
HotkeyIgnored(hotkeyIndex, size) == hotkeyIndex < 0 \/ hotkeyIndex > size

\* til::at(_hotkeys, hotkeyIndex), which does not check the index: past
\* the end of the vector the read is undefined, it yields whatever chord
\* the memory there holds, or faults
TilAt(table, index) ==
    IF index < Len(table)
    THEN {[read |-> "binding", chord |-> table[index + 1]]}
    ELSE {[read |-> "past the end", chord |-> c] : c \in Chords}
         \cup {[read |-> "fault", chord |-> 0]}

\* _hotkeyPressed(static_cast<long>(wParam)), from WM_HOTKEY
HotkeyPressed ==
    /\ pressed.count < MaxPresses
    /\ \E hotkeyIndex \in HotkeyIndices :
          IF HotkeyIgnored(hotkeyIndex, Len(hotkeyTable))
          THEN pressed' = [count |-> pressed.count + 1, index |-> hotkeyIndex,
                           size |-> Len(hotkeyTable), read |-> "none", chord |-> 0]
          ELSE \E got \in TilAt(hotkeyTable, hotkeyIndex) :
                  pressed' = [count |-> pressed.count + 1, index |-> hotkeyIndex,
                              size |-> Len(hotkeyTable), read |-> got.read,
                              chord |-> got.chord]
    /\ UNCHANGED <<hasWindow, globalHotkeys, hotkeyTable, osHotkeys, resyncQueue,
                   resync>>

(***************************************************************************)
(* The message window: _messageHandler.                                    *)
(***************************************************************************)
\* the lengths a sender's buffer is cut to: nothing, a cut inside the first
\* length prefix, the last byte missing, and the whole payload
CutPoints(data) == {0, SizeofUint32 - 1, Len(data) - 1, Len(data)}

\* cds->dwData: TERMINAL_HANDOFF_MAGIC or anything else
Tags == {"TERMINAL", "other"}

\* if (cds->dwData == TERMINAL_HANDOFF_MAGIC)
IsHandoff(dwData) == dwData = "TERMINAL"

\* the kinds of messages: the cases of the switch, and the rest
Kinds == {"WM_COPYDATA", "WM_SETTINGCHANGE", "WM_HOTKEY", "TaskbarCreated", "other"}

\* where an exception of a case is caught: by the CATCH_LOG() inside the
\* case, or by the catch (...) around the switch
InnerCatch(kind) == kind \in {"WM_COPYDATA", "WM_SETTINGCHANGE"}

\* try { switch (message) ... } catch (...) { LOG_CAUGHT_EXCEPTION(); } in a
\* noexcept function
\* (mutant) no try around the switch: std::terminate
EscapesWithoutTry(kind, threw) == threw /\ ~InnerCatch(kind)

Escapes(kind, threw) == FALSE

\* WM_COPYDATA: what the case makes of dwData, lpData and cbData
\* (mutant) no out_of_range from a buffer that is short
CopyDataDespiteThrow(dwData, data, bits) ==
    [decoded |-> IsHandoff(dwData), threw |-> FALSE,
     args |-> <<CommandlineArgs(<<>>, <<>>, ToUint32(0), <<>>)>>]

CopyData(dwData, data, bits) ==
    LET h   == deserializeHandoffPayload(data, bits)
        got == HandoffStrings(data, h)
    IN  IF ~IsHandoff(dwData)
        THEN [decoded |-> FALSE, threw |-> FALSE, args |-> <<>>]
        ELSE IF h.status # "ok"
        THEN [decoded |-> FALSE, threw |-> TRUE, args |-> <<>>]
        ELSE [decoded |-> TRUE, threw |-> FALSE,
              args |-> <<CommandlineArgs(buildArgsFromCommandline(got.args),
                                         got.cwd, h.show, got.env)>>]

NoMessage ==
    [kind |-> "none", tagged |-> FALSE, from |-> 0, intact |-> FALSE,
     decoded |-> FALSE, threw |-> FALSE]

MessagesAtConstruction ==
    /\ requestArgs = <<>>
    /\ last = NoMessage
    /\ hadException = FALSE

\* the WM_COPYDATA messages of the model, each with what the case makes of
\* it: from a launch that serialized its payload or from any other sender,
\* whole or cut short
CopyDataMessages ==
    UNION {
      LET whole == serializeHandoffPayload(LaunchPayload(p), bits)
      IN  {LET r == CopyData(dwData, SubSeq(whole, 1, n), bits)
           IN  [bits |-> bits, dwData |-> dwData, from |-> p,
                intact |-> n = Len(whole), decoded |-> r.decoded,
                threw |-> r.threw, args |-> r.args] :
           n \in CutPoints(whole), dwData \in Tags} :
      p \in Procs, bits \in SizeBitsOfBuilds}

\* a WM_COPYDATA message is dispatched
DispatchCopyData ==
    /\ mainpc = "loop"
    /\ \E m \in CopyDataMessages :
          /\ m.bits = sizeBits
          /\ IF m.decoded
             THEN /\ requests < MaxShown
                  /\ CreateNewWindowThread
                  /\ requestArgs' = requestArgs \o m.args
             ELSE UNCHANGED <<poolVars, requestArgs>>
          /\ last' = [kind |-> "WM_COPYDATA", tagged |-> m.dwData = "TERMINAL",
                      from |-> IF m.decoded THEN m.from ELSE 0,
                      intact |-> m.intact,
                      decoded |-> m.decoded, threw |-> m.threw]
    /\ hadException' = (hadException \/ last.threw)

\* any other message is dispatched; its case throws or not
DispatchOther ==
    /\ mainpc = "loop"
    /\ \E kind \in Kinds \ {"WM_COPYDATA"}, threw \in BOOLEAN :
          /\ threw => kind \in {"WM_SETTINGCHANGE", "WM_HOTKEY"}
          /\ last' = [kind |-> kind, tagged |-> FALSE, from |-> 0, intact |-> FALSE,
                      decoded |-> FALSE, threw |-> threw]
          /\ IF Escapes(kind, threw)
             THEN /\ mainpc' = "exited"
                  /\ terminatedBy' = "std::terminate"
             ELSE UNCHANGED <<mainpc, terminatedBy>>
    /\ hadException' = (hadException \/ last.threw)
    /\ UNCHANGED <<isWindows11, allowHeadless, quitting, windows, oldWindows,
                   windowThreadInstances, wpc, served, requests, dispatcherQueue,
                   quitPosted, flushed, parkedAt, run, closeCalls, requestArgs>>

(***************************************************************************)
(* The main thread: the start of the primary, its dispatcher queue and the *)
(* shell's notification area.                                              *)
(***************************************************************************)
\* the main thread, among the threads 1, 2, ... of the records
MainThread == 0

\* co_await wil::resume_foreground(_dispatcher): the rest of the coroutine
\* runs on the thread of the dispatcher
\* (mutant) the rest runs where the coroutine was called
ResumeForegroundInline(thread) == thread

ResumeForeground(thread) == MainThread

\* the dispatcher runs its queue from the front
NextTask(queue) == [task |-> Head(queue), rest |-> Tail(queue)]

\* Shell_NotifyIconW(NIM_ADD / NIM_DELETE, &_notificationIcon) as the
\* notification area sees it
ShellNotifyIcon(has, call) ==
    IF call = "NIM_ADD" THEN TRUE
    ELSE IF call = "NIM_DELETE" THEN FALSE
    ELSE has

NoCaller == [kind |-> "none", from |-> MainThread, thread |-> MainThread]

\* WindowEmperor before HandleCommandlineArgs reaches line 207
TrayAtConstruction ==
    /\ trayPc = "startup"
    /\ taskQueue = <<>>
    /\ shellHasIcon = FALSE
    /\ taskbarCreated = FALSE
    /\ events = 0
    /\ caller = NoCaller
    /\ resumed = NoCaller

TrayIdle == TrayAtConstruction

\* the main thread is in GetMessageW
MainIdle == Alive /\ trayPc = "loop" /\ iconpc = "idle"

\* lines 207-220: _setupGlobalHotkeys() and, once the handler of
\* SettingsChanged is registered, _checkWindowsForNotificationIcon()
StartPrimary ==
    /\ trayPc = "startup"
    /\ trayPc' = "loop"
    /\ SetupGlobalHotkeys
    /\ taskQueue' = Append(taskQueue, [kind |-> "resync", from |-> MainThread])
    /\ CheckWindowsForNotificationIcon
    /\ caller' = [kind |-> "startup", from |-> MainThread, thread |-> MainThread]
    /\ UNCHANGED <<shellHasIcon, taskbarCreated, events, resumed>>

\* the handler of SettingsChanged (lines 211-217), called by ReloadSettings()
\* on the main thread (line 499): _setupGlobalHotkeys() up to its co_await,
\* then _checkWindowsForNotificationIcon() in the handler itself
SettingsChangedHandler ==
    /\ MainIdle
    /\ events < MaxEvents
    /\ events' = events + 1
    /\ SetupGlobalHotkeys
    /\ taskQueue' = Append(taskQueue, [kind |-> "resync", from |-> MainThread])
    /\ SettingsChanged
    /\ caller' = [kind |-> "SettingsChanged", from |-> MainThread, thread |-> MainThread]
    /\ UNCHANGED <<trayPc, shellHasIcon, taskbarCreated, resumed>>

\* _windowIsQuakeWindowChanged on the thread of the window, up to its
\* co_await wil::resume_foreground(_dispatcher)
WindowIsQuakeWindowChanged(t) ==
    /\ trayPc = "loop"
    /\ events < MaxEvents
    /\ events' = events + 1
    /\ QuakeWindowChanged(t)
    /\ taskQueue' = Append(taskQueue, [kind |-> "recompute", from |-> t])
    /\ UNCHANGED <<trayPc, shellHasIcon, taskbarCreated, caller, resumed>>

\* the dispatcher resumes _windowIsQuakeWindowChanged:
\* _checkWindowsForNotificationIcon()
ResumeWindowIsQuakeWindowChanged ==
    /\ MainIdle
    /\ taskQueue # <<>>
    /\ NextTask(taskQueue).task.kind = "recompute"
    /\ taskQueue' = NextTask(taskQueue).rest
    /\ CheckWindowsForNotificationIcon
    /\ caller' = [kind |-> "task", from |-> NextTask(taskQueue).task.from,
                  thread |-> ResumeForeground(NextTask(taskQueue).task.from)]
    /\ UNCHANGED <<trayPc, shellHasIcon, taskbarCreated, events, resumed>>

\* the dispatcher resumes _setupGlobalHotkeys
ResumeSetupGlobalHotkeysTask ==
    /\ MainIdle
    /\ taskQueue # <<>>
    /\ NextTask(taskQueue).task.kind = "resync"
    /\ taskQueue' = NextTask(taskQueue).rest
    /\ ResumeSetupGlobalHotkeys
    /\ resumed' = [kind |-> "task", from |-> NextTask(taskQueue).task.from,
                   thread |-> ResumeForeground(NextTask(taskQueue).task.from)]
    /\ UNCHANGED <<trayPc, shellHasIcon, taskbarCreated, events, caller>>

\* explorer.exe restarts: the notification area is empty and every top-level
\* window is sent TaskbarCreated
ExplorerRestarts ==
    /\ Alive
    /\ trayPc = "loop"
    /\ ~taskbarCreated
    /\ events < MaxEvents
    /\ events' = events + 1
    /\ shellHasIcon' = FALSE
    /\ taskbarCreated' = TRUE
    /\ UNCHANGED <<trayPc, taskQueue, caller, resumed>>

\* the default case of _messageHandler: message == WM_TASKBARCREATED
TaskbarCreated ==
    /\ MainIdle
    /\ taskbarCreated
    /\ taskbarCreated' = FALSE
    /\ CheckWindowsForNotificationIcon
    /\ caller' = [kind |-> "TaskbarCreated", from |-> MainThread, thread |-> MainThread]
    /\ UNCHANGED <<trayPc, taskQueue, shellHasIcon, events, resumed>>

\* the rest of _checkWindowsForNotificationIcon, with the notification area
ApplyTrayIcon ==
    /\ ApplyIcon
    /\ shellHasIcon' = ShellNotifyIcon(shellHasIcon, shell')
    /\ UNCHANGED <<trayPc, taskQueue, taskbarCreated, events, caller, resumed>>

(***************************************************************************)
(* The locks of the two lists: every use of _windows and _oldWindows goes  *)
(* through lock() or lock_shared() of its til::shared_mutex, and the guard *)
(* ends with the block or the function it is declared in.                  *)
(***************************************************************************)
Threads == {MainThread} \cup Records

Lists == {"_windows", "_oldWindows"}

Unlocked == [writers |-> {}, readers |-> {}]

\* lock(): exclusive
CanLock(l) == l.writers = {} /\ l.readers = {}

\* lock_shared(): with other readers
CanLockShared(l) == l.writers = {}

Lock(l, thread) == [l EXCEPT !.writers = @ \cup {thread}]

LockShared(l, thread) == [l EXCEPT !.readers = @ \cup {thread}]

\* the destructor of the guard
Unlock(l, thread) == [writers |-> l.writers \ {thread}, readers |-> l.readers \ {thread}]

Holds(list, thread) == thread \in held[list].writers \cup held[list].readers

LocksIdle == held = [list \in Lists |-> Unlocked]

\* the list whose lock() the thread of a record calls before its next use
\* of a list: _windows before push_back (line 309) and in _removeWindow
\* (line 367), _oldWindows before fridge->push_back (line 349)
\* (mutant) _removeWindow without its lock()
WantsLockButToErase(t) ==
    IF wpc[t] = "started" \/ Reheated(t) THEN {"_windows"}
    ELSE IF wpc[t] = "park" THEN {"_oldWindows"}
    ELSE {}

WantsLock(t) ==
    IF wpc[t] \in {"started", "remove", "unwound"} \/ Reheated(t) THEN {"_windows"}
    ELSE IF wpc[t] = "park" THEN {"_oldWindows"}
    ELSE {}

\* the guards that end with a use of a list: each guard is a local of the
\* block around the use (lines 273-281, 307-311, 347-351, 944-950) or of
\* _removeWindow (lines 367-374)
\* (mutant) the guard of push_back outside its block
GuardsEndedButOfPublish(use) == IF use = "push_back" THEN {} ELSE Lists

GuardsEndedBy(use) == Lists

\* the locks once the guards of a thread have ended
Ended(thread, use) ==
    [list \in Lists |->
        IF list \in GuardsEndedBy(use) THEN Unlock(held[list], thread) ELSE held[list]]

\* the thread of a record passes lock()
LockList(t) ==
    /\ Alive
    /\ \E list \in WantsLock(t) :
          /\ ~Holds(list, t)
          /\ CanLock(held[list])
          /\ held' = [held EXCEPT ![list] = Lock(@, t)]

\* it has passed the lock() of its next use
HoldsWanted(t) == \A list \in WantsLock(t) : t \in held[list].writers

\* const auto fridge = _oldWindows.lock(), for a request of the model
LockOldWindows ==
    /\ mainpc = "loop" /\ iconpc = "idle"
    /\ requests < MaxShown
    /\ \A list \in Lists : ~Holds(list, MainThread)
    /\ CanLock(held["_oldWindows"])
    /\ held' = [held EXCEPT !["_oldWindows"] = Lock(@, MainThread)]

\* auto windows{ _windows.lock_shared() }
LockWindowsShared ==
    /\ Alive /\ iconpc = "called"
    /\ ~Holds("_windows", MainThread)
    /\ CanLockShared(held["_windows"])
    /\ held' = [held EXCEPT !["_windows"] = LockShared(@, MainThread)]

\* the block of lines 273-281 and the rest of _createNewWindowThread
CreateNewWindowThreadLocked ==
    /\ MainThread \in held["_oldWindows"].writers
    /\ CreateNewWindowThread
    /\ held' = Ended(MainThread, "pop_back")

\* the block of lines 307-311
PublishLocked(t) ==
    /\ HoldsWanted(t)
    /\ Publish(t)
    /\ held' = Ended(t, "push_back")

\* _removeWindow, from removeWindow.reset()
RemoveWindowLocked(t) ==
    /\ HoldsWanted(t)
    /\ RemoveWindow(t)
    /\ held' = Ended(t, "erase_if")

\* _removeWindow, from the destructor of removeWindow
UnwindRemoveLocked(t) ==
    /\ HoldsWanted(t)
    /\ UnwindRemove(t)
    /\ held' = Ended(t, "erase_if")

\* the block of lines 347-351
ParkLocked(t) ==
    /\ HoldsWanted(t)
    /\ Park(t)
    /\ held' = Ended(t, "fridge->push_back")

\* the block of lines 944-950
ScanWindowsLocked ==
    /\ MainThread \in held["_windows"].readers
    /\ ScanWindows
    /\ held' = Ended(MainThread, "for")

(***************************************************************************)
(* The sweep of the settings directory at the exit of the primary          *)
(* (_finalizeSessionPersistence). A file name is the sequence of its       *)
(* characters, a GUID is its text in capital letters: GuidFromString reads *)
(* the hexadecimal digits of either case.                                  *)
(***************************************************************************)
HexUpper == <<"A", "B", "C", "D", "E", "F">>
HexLower == <<"a", "b", "c", "d", "e", "f">>

ToUpper(c) ==
    IF \E i \in 1..Len(HexLower) : HexLower[i] = c
    THEN HexUpper[CHOOSE i \in 1..Len(HexLower) : HexLower[i] = c]
    ELSE c

\* the text of the session id g, 8-4-4-4-12, in the digits of one case
GuidText(g, digits) ==
    [i \in 1..36 |-> IF i \in {9, 14, 19, 24} THEN "-" ELSE digits[g]]

\* winrt::guid of the session g
SessionGuid(g) == GuidText(g, HexUpper)

\* Utils::GuidFromString(L"{...}")
GuidFromString(guidStr) == [i \in 1..36 |-> ToUpper(guidStr[i + 1])]

BufferPrefix == <<"b", "u", "f", "f", "e", "r", "_">>

\* the files FindFirstFileExW(settingsDirectory / L"buffer_*") may find:
\* buffer_<id>.txt with the id in either case, and names one character
\* shorter and longer
BufferNames ==
    UNION {{BufferPrefix \o GuidText(g, HexUpper) \o <<".", "t", "x", "t">>,
            BufferPrefix \o GuidText(g, HexLower) \o <<".", "t", "x", "t">>}
           : g \in 1..NIds}
    \cup {BufferPrefix \o GuidText(1, HexUpper) \o <<".", "t", "x">>,
          BufferPrefix \o GuidText(2, HexUpper) \o <<".", "t", "e", "x", "t">>}

\* the actions of the persisted tab layouts: new tabs and split panes
\* with NewTerminalArgs and their session id, and an action without
LayoutActions ==
    {[action |-> "newTab", sessionId |-> SessionGuid(g)] : g \in 1..NIds}
    \cup {[action |-> "splitPane", sessionId |-> SessionGuid(1)],
          [action |-> "switchToTab", sessionId |-> SessionGuid(2)]}

\* the loop over state.PersistedWindowLayouts(): sessionIds
SessionIds(actions) ==
    {a.sessionId : a \in {b \in actions : b.action \in {"newTab", "splitPane"}}}

\* the test of nameLen that lets every name through
HasBufferNameLengthAny(name) == TRUE

\* if (nameLen != 47) continue;
HasBufferNameLength(name) == Len(name) = 47

\* guidStr: '{', the 36 characters from offset 7, '}'
GuidStr(name) == <<"{">> \o SubSeq(name, 8, 43) \o <<"}">>

\* the do-while over the files found: the names that stay
RECURSIVE SweepFiles(_, _)
SweepFiles(files, sessionIds) ==
    IF files = {} THEN {}
    ELSE LET name == CHOOSE f \in files : TRUE
             rest == SweepFiles(files \ {name}, sessionIds)
         IN  IF ~HasBufferNameLength(name) THEN rest \cup {name}
             ELSE IF GuidFromString(GuidStr(name)) \notin sessionIds
                  THEN rest
                  ELSE rest \cup {name}

SweepIdle ==
    /\ sweepPc = "finalize"
    /\ requiresPersistenceCleanupOnExit = FALSE
    /\ layouts = {}
    /\ directory = {}
    /\ found = {}

\* _finalizeSessionPersistence(), called once after the message loop:
\* state.Flush() writes the state and no buffer_ file
SweepSessionBuffers ==
    /\ sweepPc = "finalize"
    /\ sweepPc' = "terminate"
    /\ directory' = IF ~requiresPersistenceCleanupOnExit THEN directory
                    ELSE SweepFiles(directory, SessionIds(layouts))
    /\ UNCHANGED <<requiresPersistenceCleanupOnExit, layouts, found>>

(***************************************************************************)
(* SpecPool: the pool of a primary from its construction on. Its counter   *)
(* is never 1 within the bounds (nothing increments it), so _close() is    *)
(* not called and the main thread stays in its loop.                       *)
(***************************************************************************)
OthersIdle ==
    /\ sizeBits = 64
    /\ payload = LaunchPayload(1)
    /\ buf = <<>>
    /\ tamper = "none"
    /\ handoff = NoHandoff
    /\ phase = "launch"
    /\ InitProcs

InitPool ==
    /\ \E win11 \in BOOLEAN, headless \in BOOLEAN : PoolAtConstruction(win11, headless)
    /\ OthersIdle
    /\ IconIdle
    /\ HotkeysIdle
    /\ MessagesAtConstruction
    /\ TrayIdle
    /\ LocksIdle
    /\ SweepIdle

NextPool ==
    \/ CreateNewWindowThread /\ UNCHANGED <<codecVars, procVars, iconVars, hotkeyVars, msgVars, trayVars, lockVars, sweepVars>>
    \/ \E t \in Records : Publish(t) /\ UNCHANGED <<codecVars, procVars, iconVars, hotkeyVars, msgVars, trayVars, lockVars, sweepVars>>
    \/ \E t \in Records : LeavePump(t) /\ UNCHANGED <<codecVars, procVars, iconVars, hotkeyVars, msgVars, trayVars, lockVars, sweepVars>>
    \/ \E t \in Records : RemoveWindow(t) /\ UNCHANGED <<codecVars, procVars, iconVars, hotkeyVars, msgVars, trayVars, lockVars, sweepVars>>
    \/ \E t \in Records : DecrementWindowCount(t) /\ UNCHANGED <<codecVars, procVars, iconVars, hotkeyVars, msgVars, trayVars, lockVars, sweepVars>>
    \/ \E t \in Records : Park(t) /\ UNCHANGED <<codecVars, procVars, iconVars, hotkeyVars, msgVars, trayVars, lockVars, sweepVars>>
    \/ \E t \in Records : Rundown(t) /\ UNCHANGED <<codecVars, procVars, iconVars, hotkeyVars, msgVars, trayVars, lockVars, sweepVars>>

SpecPool == InitPool /\ [][NextPool]_vars

(***************************************************************************)
(* SpecShutdown: the same primary where its counter stands at 0, 1 or 2    *)
(* and no window is open. The counter is a uint32_t that every closed      *)
(* window decrements, so that it stands at k after 2^32 - k closes: on     *)
(* Windows 11 all threads have ended then, elsewhere the record that was   *)
(* closed last is in the fridge.                                           *)
(***************************************************************************)
CountsAtShutdown == {ToUint32(0), ToUint32(1), ToUint32(2)}

InitShutdown ==
    /\ \E win11 \in BOOLEAN, headless \in BOOLEAN, count \in CountsAtShutdown :
          PoolWith(win11, headless, count,
                   IF win11 \/ count = CountAtConstruction THEN 0 ELSE 1)
    /\ OthersIdle
    /\ IconIdle
    /\ HotkeysIdle
    /\ MessagesAtConstruction
    /\ TrayIdle
    /\ LocksIdle
    /\ SweepIdle

NextShutdown ==
    \/ NextPool
    \/ ResumeClose /\ UNCHANGED <<codecVars, procVars, iconVars, hotkeyVars, msgVars, trayVars, lockVars, sweepVars>>
    \/ LeaveMessageLoop /\ UNCHANGED <<codecVars, procVars, iconVars, hotkeyVars, msgVars, trayVars, lockVars, sweepVars>>
    \/ FinalizeSessionPersistence /\ UNCHANGED <<codecVars, procVars, iconVars, hotkeyVars, msgVars, trayVars, lockVars, sweepVars>>
    \/ TerminateProcess /\ UNCHANGED <<codecVars, procVars, iconVars, hotkeyVars, msgVars, trayVars, lockVars, sweepVars>>

SpecShutdown == InitShutdown /\ [][NextShutdown]_vars

(***************************************************************************)
(* SpecIcon: the pool from its construction on with at most MaxShown       *)
(* windows opened, their quake mode, the setting and the calls of          *)
(* _checkWindowsForNotificationIcon on the main thread.                    *)
(***************************************************************************)
InitIcon ==
    /\ \E win11 \in BOOLEAN : PoolAtConstruction(win11, FALSE)
    /\ \E tray \in BOOLEAN : IconAtConstruction(tray)
    /\ OthersIdle
    /\ HotkeysIdle
    /\ MessagesAtConstruction
    /\ TrayIdle
    /\ LocksIdle
    /\ SweepIdle

NextIcon ==
    \/ /\ requests < MaxShown
       /\ CreateNewWindowThread
       /\ UNCHANGED <<codecVars, procVars, iconVars, hotkeyVars, msgVars, trayVars, lockVars, sweepVars>>
    \/ \E t \in Records : Publish(t) /\ UNCHANGED <<codecVars, procVars, iconVars, hotkeyVars, msgVars, trayVars, lockVars, sweepVars>>
    \/ \E t \in Records : LeavePump(t) /\ UNCHANGED <<codecVars, procVars, iconVars, hotkeyVars, msgVars, trayVars, lockVars, sweepVars>>
    \/ \E t \in Records : RemoveWindow(t) /\ UNCHANGED <<codecVars, procVars, iconVars, hotkeyVars, msgVars, trayVars, lockVars, sweepVars>>
    \/ \E t \in Records : DecrementWindowCount(t) /\ UNCHANGED <<codecVars, procVars, iconVars, hotkeyVars, msgVars, trayVars, lockVars, sweepVars>>
    \/ \E t \in Records : Park(t) /\ UNCHANGED <<codecVars, procVars, iconVars, hotkeyVars, msgVars, trayVars, lockVars, sweepVars>>
    \/ \E t \in Records : Rundown(t) /\ UNCHANGED <<codecVars, procVars, iconVars, hotkeyVars, msgVars, trayVars, lockVars, sweepVars>>
    \/ CheckWindowsForNotificationIcon /\ UNCHANGED <<codecVars, procVars, poolVars, hotkeyVars, msgVars, trayVars, lockVars, sweepVars>>
    \/ SettingsChanged /\ UNCHANGED <<codecVars, procVars, poolVars, hotkeyVars, msgVars, trayVars, lockVars, sweepVars>>
    \/ \E t \in Records : QuakeWindowChanged(t) /\ UNCHANGED <<codecVars, procVars, poolVars, hotkeyVars, msgVars, trayVars, lockVars, sweepVars>>
    \/ ScanWindows /\ UNCHANGED <<codecVars, procVars, poolVars, hotkeyVars, msgVars, trayVars, lockVars, sweepVars>>
    \/ ApplyIcon /\ UNCHANGED <<codecVars, procVars, poolVars, hotkeyVars, msgVars, trayVars, lockVars, sweepVars>>

SpecIcon == InitIcon /\ [][NextIcon]_vars

(***************************************************************************)
(* SpecHotkeys: the settings' bindings change and _setupGlobalHotkeys is   *)
(* called and resumes on the main thread, with or without a message        *)
(* window (CreateWindowExW may have failed).                               *)
(***************************************************************************)
InitHotkeys ==
    /\ PoolIdle
    /\ IconIdle
    /\ OthersIdle
    /\ \E w \in BOOLEAN, bs \in BindingLists : HotkeysAtConstruction(w, bs)
    /\ MessagesAtConstruction
    /\ TrayIdle
    /\ LocksIdle
    /\ SweepIdle

NextHotkeys ==
    \/ GlobalHotkeysChanged /\ UNCHANGED <<codecVars, procVars, poolVars, iconVars, msgVars, trayVars, lockVars, sweepVars>>
    \/ SetupGlobalHotkeys /\ UNCHANGED <<codecVars, procVars, poolVars, iconVars, msgVars, trayVars, lockVars, sweepVars>>
    \/ ResumeSetupGlobalHotkeys /\ UNCHANGED <<codecVars, procVars, poolVars, iconVars, msgVars, trayVars, lockVars, sweepVars>>

SpecHotkeys == InitHotkeys /\ [][NextHotkeys]_vars

(***************************************************************************)
(* SpecPress: the same with the WM_HOTKEY messages of the message window,  *)
(* whose wParam is any index.                                              *)
(***************************************************************************)
NextPress ==
    \/ NextHotkeys
    \/ HotkeyPressed /\ UNCHANGED <<codecVars, procVars, poolVars, iconVars, msgVars, trayVars, lockVars, sweepVars>>

SpecPress == InitHotkeys /\ [][NextPress]_vars

(***************************************************************************)
(* SpecMessages: the main thread dispatches messages to _messageHandler,   *)
(* handoffs among them, while the window threads run.                      *)
(***************************************************************************)
InitMessages ==
    /\ \E win11 \in BOOLEAN : PoolAtConstruction(win11, FALSE)
    /\ OthersIdle
    /\ IconIdle
    /\ HotkeysIdle
    /\ MessagesAtConstruction
    /\ TrayIdle
    /\ LocksIdle
    /\ SweepIdle

NextMessages ==
    \/ DispatchCopyData /\ UNCHANGED <<codecVars, procVars, iconVars, hotkeyVars, trayVars, lockVars, sweepVars>>
    \/ DispatchOther /\ UNCHANGED <<codecVars, procVars, iconVars, hotkeyVars, trayVars, lockVars, sweepVars>>
    \/ \E t \in Records : Publish(t) /\ UNCHANGED <<codecVars, procVars, iconVars, hotkeyVars, msgVars, trayVars, lockVars, sweepVars>>
    \/ \E t \in Records : LeavePump(t) /\ UNCHANGED <<codecVars, procVars, iconVars, hotkeyVars, msgVars, trayVars, lockVars, sweepVars>>
    \/ \E t \in Records : RemoveWindow(t) /\ UNCHANGED <<codecVars, procVars, iconVars, hotkeyVars, msgVars, trayVars, lockVars, sweepVars>>
    \/ \E t \in Records : DecrementWindowCount(t) /\ UNCHANGED <<codecVars, procVars, iconVars, hotkeyVars, msgVars, trayVars, lockVars, sweepVars>>
    \/ \E t \in Records : Park(t) /\ UNCHANGED <<codecVars, procVars, iconVars, hotkeyVars, msgVars, trayVars, lockVars, sweepVars>>
    \/ \E t \in Records : Rundown(t) /\ UNCHANGED <<codecVars, procVars, iconVars, hotkeyVars, msgVars, trayVars, lockVars, sweepVars>>

SpecMessages == InitMessages /\ [][NextMessages]_vars

(***************************************************************************)
(* SpecTray: the primary from line 207 of HandleCommandlineArgs on, with   *)
(* at most MaxEvents events from outside: what the main thread runs        *)
(* itself, what it runs from its dispatcher queue, and the shell's         *)
(* notification area.                                                      *)
(***************************************************************************)
\* the settings of SpecTray: one binding of globalSummon
TrayBindings == <<[chord |-> 1, summon |-> TRUE]>>

InitTray ==
    /\ \E win11 \in BOOLEAN : PoolAtConstruction(win11, FALSE)
    /\ \E tray \in BOOLEAN : IconAtConstruction(tray)
    /\ HotkeysAtConstruction(TRUE, TrayBindings)
    /\ OthersIdle
    /\ MessagesAtConstruction
    /\ TrayAtConstruction
    /\ LocksIdle
    /\ SweepIdle

NextTray ==
    \/ StartPrimary /\ UNCHANGED <<codecVars, procVars, poolVars, msgVars, lockVars, sweepVars>>
    \/ /\ MainIdle
       /\ events < MaxEvents
       /\ events' = events + 1
       /\ CreateNewWindowThread
       /\ UNCHANGED <<codecVars, procVars, iconVars, hotkeyVars, msgVars, trayPc,
                      taskQueue, shellHasIcon, taskbarCreated, caller, resumed,
                      lockVars, sweepVars>>
    \/ \E t \in Records : Publish(t) /\ UNCHANGED <<codecVars, procVars, iconVars, hotkeyVars, msgVars, trayVars, lockVars, sweepVars>>
    \/ \E t \in Records : LeavePump(t) /\ UNCHANGED <<codecVars, procVars, iconVars, hotkeyVars, msgVars, trayVars, lockVars, sweepVars>>
    \/ \E t \in Records : RemoveWindow(t) /\ UNCHANGED <<codecVars, procVars, iconVars, hotkeyVars, msgVars, trayVars, lockVars, sweepVars>>
    \/ \E t \in Records : DecrementWindowCount(t) /\ UNCHANGED <<codecVars, procVars, iconVars, hotkeyVars, msgVars, trayVars, lockVars, sweepVars>>
    \/ \E t \in Records : Park(t) /\ UNCHANGED <<codecVars, procVars, iconVars, hotkeyVars, msgVars, trayVars, lockVars, sweepVars>>
    \/ \E t \in Records : Rundown(t) /\ UNCHANGED <<codecVars, procVars, iconVars, hotkeyVars, msgVars, trayVars, lockVars, sweepVars>>
    \/ SettingsChangedHandler /\ UNCHANGED <<codecVars, procVars, poolVars, msgVars, lockVars, sweepVars>>
    \/ \E t \in Records : WindowIsQuakeWindowChanged(t) /\ UNCHANGED <<codecVars, procVars, poolVars, hotkeyVars, msgVars, lockVars, sweepVars>>
    \/ ResumeWindowIsQuakeWindowChanged /\ UNCHANGED <<codecVars, procVars, poolVars, hotkeyVars, msgVars, lockVars, sweepVars>>
    \/ ResumeSetupGlobalHotkeysTask /\ UNCHANGED <<codecVars, procVars, poolVars, iconVars, msgVars, lockVars, sweepVars>>
    \/ ExplorerRestarts /\ UNCHANGED <<codecVars, procVars, poolVars, iconVars, hotkeyVars, msgVars, lockVars, sweepVars>>
    \/ TaskbarCreated /\ UNCHANGED <<codecVars, procVars, poolVars, hotkeyVars, msgVars, lockVars, sweepVars>>
    \/ ScanWindows /\ UNCHANGED <<codecVars, procVars, poolVars, hotkeyVars, msgVars, trayVars, lockVars, sweepVars>>
    \/ ApplyTrayIcon /\ UNCHANGED <<codecVars, procVars, poolVars, hotkeyVars, msgVars, lockVars, sweepVars>>

SpecTray == InitTray /\ [][NextTray]_vars

(***************************************************************************)
(* SpecLocks: the window threads of a primary, at most MaxShown of them,   *)
(* with their exceptions, the requests and the icon recomputes of the main *)
(* thread, each use of a list inside its lock.                             *)
(***************************************************************************)
InitLocks ==
    /\ \E win11 \in BOOLEAN : PoolAtConstruction(win11, FALSE)
    /\ OthersIdle
    /\ IconIdle
    /\ HotkeysIdle
    /\ MessagesAtConstruction
    /\ TrayAtConstruction
    /\ held = [list \in Lists |-> Unlocked]
    /\ SweepIdle

\* what the main thread does
MainStep ==
    \/ LockOldWindows /\ UNCHANGED <<codecVars, procVars, poolVars, iconVars, hotkeyVars, msgVars, trayVars, sweepVars>>
    \/ CreateNewWindowThreadLocked /\ UNCHANGED <<codecVars, procVars, iconVars, hotkeyVars, msgVars, trayVars, sweepVars>>
    \/ /\ \A list \in Lists : ~Holds(list, MainThread)
       /\ CheckWindowsForNotificationIcon
       /\ UNCHANGED <<codecVars, procVars, poolVars, hotkeyVars, msgVars, trayVars, lockVars, sweepVars>>
    \/ LockWindowsShared /\ UNCHANGED <<codecVars, procVars, poolVars, iconVars, hotkeyVars, msgVars, trayVars, sweepVars>>
    \/ ScanWindowsLocked /\ UNCHANGED <<codecVars, procVars, poolVars, hotkeyVars, msgVars, trayVars, sweepVars>>
    \/ ApplyIcon /\ UNCHANGED <<codecVars, procVars, poolVars, hotkeyVars, msgVars, trayVars, lockVars, sweepVars>>

\* what the thread of a record does; CreateHost() has returned or thrown
\* before the thread calls lock() for its push_back
WindowStep(t) ==
    \/ LockList(t) /\ UNCHANGED <<codecVars, procVars, poolVars, iconVars, hotkeyVars, msgVars, trayVars, sweepVars>>
    \/ PublishLocked(t) /\ UNCHANGED <<codecVars, procVars, iconVars, hotkeyVars, msgVars, trayVars, sweepVars>>
    \/ LeavePump(t) /\ UNCHANGED <<codecVars, procVars, iconVars, hotkeyVars, msgVars, trayVars, lockVars, sweepVars>>
    \/ RemoveWindowLocked(t) /\ UNCHANGED <<codecVars, procVars, iconVars, hotkeyVars, msgVars, trayVars, sweepVars>>
    \/ DecrementWindowCount(t) /\ UNCHANGED <<codecVars, procVars, iconVars, hotkeyVars, msgVars, trayVars, lockVars, sweepVars>>
    \/ ParkLocked(t) /\ UNCHANGED <<codecVars, procVars, iconVars, hotkeyVars, msgVars, trayVars, sweepVars>>
    \/ Rundown(t) /\ UNCHANGED <<codecVars, procVars, iconVars, hotkeyVars, msgVars, trayVars, lockVars, sweepVars>>
    \/ /\ ~Holds("_windows", t)
       /\ ThrowInCreateHost(t)
       /\ UNCHANGED <<codecVars, procVars, iconVars, hotkeyVars, msgVars, trayVars, lockVars, sweepVars>>
    \/ ThrowInPump(t) /\ UNCHANGED <<codecVars, procVars, iconVars, hotkeyVars, msgVars, trayVars, lockVars, sweepVars>>
    \/ UnwindDecrement(t) /\ UNCHANGED <<codecVars, procVars, iconVars, hotkeyVars, msgVars, trayVars, lockVars, sweepVars>>
    \/ UnwindRemoveLocked(t) /\ UNCHANGED <<codecVars, procVars, iconVars, hotkeyVars, msgVars, trayVars, sweepVars>>

NextLocks ==
    \/ MainStep
    \/ \E t \in Records : WindowStep(t)

SpecLocks == InitLocks /\ [][NextLocks]_vars

(***************************************************************************)
(* SpecSweep: the main thread of a primary has left its message loop. The  *)
(* member is what line 229 made it at the start, the layouts and the files *)
(* are what the run left.                                                  *)
(***************************************************************************)
InitSweep ==
    /\ PoolIdle
    /\ OthersIdle
    /\ IconIdle
    /\ HotkeysIdle
    /\ MessagesAtConstruction
    /\ TrayIdle
    /\ LocksIdle
    /\ sweepPc = "finalize"
    /\ requiresPersistenceCleanupOnExit \in BOOLEAN
    /\ layouts \in SUBSET LayoutActions
    /\ directory \in SUBSET BufferNames
    /\ found = directory

NextSweep ==
    \/ SweepSessionBuffers
          /\ UNCHANGED <<codecVars, procVars, poolVars, iconVars, hotkeyVars, msgVars, trayVars, lockVars>>

SpecSweep == InitSweep /\ [][NextSweep]_vars

(***************************************************************************)
(* SpecFaults: the window threads of a primary, at most MaxShown of them,  *)
(* where CreateHost() and RunMessagePump() may throw.                      *)
(***************************************************************************)
NextFaults ==
    \/ /\ requests < MaxShown
       /\ CreateNewWindowThread
       /\ UNCHANGED <<codecVars, procVars, iconVars, hotkeyVars, msgVars, trayVars, lockVars, sweepVars>>
    \/ \E t \in Records : Publish(t) /\ UNCHANGED <<codecVars, procVars, iconVars, hotkeyVars, msgVars, trayVars, lockVars, sweepVars>>
    \/ \E t \in Records : LeavePump(t) /\ UNCHANGED <<codecVars, procVars, iconVars, hotkeyVars, msgVars, trayVars, lockVars, sweepVars>>
    \/ \E t \in Records : RemoveWindow(t) /\ UNCHANGED <<codecVars, procVars, iconVars, hotkeyVars, msgVars, trayVars, lockVars, sweepVars>>
    \/ \E t \in Records : DecrementWindowCount(t) /\ UNCHANGED <<codecVars, procVars, iconVars, hotkeyVars, msgVars, trayVars, lockVars, sweepVars>>
    \/ \E t \in Records : Park(t) /\ UNCHANGED <<codecVars, procVars, iconVars, hotkeyVars, msgVars, trayVars, lockVars, sweepVars>>
    \/ \E t \in Records : Rundown(t) /\ UNCHANGED <<codecVars, procVars, iconVars, hotkeyVars, msgVars, trayVars, lockVars, sweepVars>>
    \/ \E t \in Records : ThrowInCreateHost(t) /\ UNCHANGED <<codecVars, procVars, iconVars, hotkeyVars, msgVars, trayVars, lockVars, sweepVars>>
    \/ \E t \in Records : ThrowInPump(t) /\ UNCHANGED <<codecVars, procVars, iconVars, hotkeyVars, msgVars, trayVars, lockVars, sweepVars>>
    \/ \E t \in Records : UnwindDecrement(t) /\ UNCHANGED <<codecVars, procVars, iconVars, hotkeyVars, msgVars, trayVars, lockVars, sweepVars>>
    \/ \E t \in Records : UnwindRemove(t) /\ UNCHANGED <<codecVars, procVars, iconVars, hotkeyVars, msgVars, trayVars, lockVars, sweepVars>>

SpecFaults == InitPool /\ [][NextFaults]_vars

(***************************************************************************)
(* SpecCodec: serialize, damage, deserialize.                              *)
(***************************************************************************)
InitCodec ==
    /\ sizeBits \in SizeBitsOfBuilds
    /\ payload \in Payloads
    /\ buf = <<>>
    /\ tamper = "none"
    /\ handoff = NoHandoff
    /\ phase = "launch"
    /\ InitProcs
    /\ PoolIdle
    /\ IconIdle
    /\ HotkeysIdle
    /\ MessagesAtConstruction
    /\ TrayIdle
    /\ LocksIdle
    /\ SweepIdle

\* acquireMutexOrAttemptHandoff: auto payload = serializeHandoffPayload(nCmdShow)
Serialize ==
    /\ phase = "launch"
    /\ buf' = serializeHandoffPayload(payload, sizeBits)
    /\ phase' = "sent"
    /\ UNCHANGED <<sizeBits, payload, tamper, handoff>>

\* WM_COPYDATA carries whatever lpData and cbData its sender gives: a
\* payload cut short,
Truncate ==
    /\ phase = "sent" /\ tamper = "none"
    /\ \E n \in 0..(Len(buf) - 1) : buf' = SubSeq(buf, 1, n)
    /\ tamper' = "truncated"
    /\ UNCHANGED <<sizeBits, payload, handoff, phase>>

\* a payload followed by more bytes,
TailBytes == {1, 255}

Extend ==
    /\ phase = "sent" /\ tamper = "none"
    /\ \E n \in 1..MaxTail : \E tail \in [1..n -> TailBytes] : buf' = buf \o tail
    /\ tamper' = "extended"
    /\ UNCHANGED <<sizeBits, payload, handoff, phase>>

\* or a payload one of whose length prefixes declares another length
ForgedLengths ==
    [hi : {0, 32768, 65535}, lo : 0..(MaxLen + 1) \cup {65535}]

PrefixOffset(p, field) ==
    CASE field = 1 -> 0
      [] field = 2 -> SizeofUint32 + SizeofWchar * Len(p.args)
      [] field = 3 -> 2 * SizeofUint32 + SizeofWchar * (Len(p.args) + Len(p.env))

ForgeLength ==
    /\ phase = "sent" /\ tamper = "none"
    /\ \E field \in 1..3 : \E d \in ForgedLengths :
          LET off == PrefixOffset(payload, field)
              new == SubSeq(buf, 1, off) \o serializeUint32(<<>>, d)
                        \o SubSeq(buf, off + SizeofUint32 + 1, Len(buf))
          IN  new # buf /\ buf' = new
    /\ tamper' = "forged"
    /\ UNCHANGED <<sizeBits, payload, handoff, phase>>

\* _messageHandler, WM_COPYDATA: deserializeHandoffPayload(lpData, lpData + cbData)
Deserialize ==
    /\ phase = "sent"
    /\ handoff' = deserializeHandoffPayload(buf, sizeBits)
    /\ phase' = "received"
    /\ UNCHANGED <<sizeBits, payload, buf, tamper>>

NextCodec ==
    \/ Serialize /\ UNCHANGED <<procVars, poolVars, iconVars, hotkeyVars, msgVars, trayVars, lockVars, sweepVars>>
    \/ Truncate /\ UNCHANGED <<procVars, poolVars, iconVars, hotkeyVars, msgVars, trayVars, lockVars, sweepVars>>
    \/ Extend /\ UNCHANGED <<procVars, poolVars, iconVars, hotkeyVars, msgVars, trayVars, lockVars, sweepVars>>
    \/ ForgeLength /\ UNCHANGED <<procVars, poolVars, iconVars, hotkeyVars, msgVars, trayVars, lockVars, sweepVars>>
    \/ Deserialize /\ UNCHANGED <<procVars, poolVars, iconVars, hotkeyVars, msgVars, trayVars, lockVars, sweepVars>>

SpecCodec == InitCodec /\ [][NextCodec]_vars

(***************************************************************************)
(* Spec: the launches race.                                                *)
(***************************************************************************)
\* (the codec's variables stand still: HandleCopyData serializes and
\* deserializes for both widths of size_t)
Init ==
    /\ sizeBits = 64
    /\ payload = LaunchPayload(1)
    /\ buf = <<>>
    /\ tamper = "none"
    /\ handoff = NoHandoff
    /\ phase = "launch"
    /\ InitProcs
    /\ PoolIdle
    /\ IconIdle
    /\ HotkeysIdle
    /\ MessagesAtConstruction
    /\ TrayIdle
    /\ LocksIdle
    /\ SweepIdle

Next ==
    \/ \E p \in Procs : Launch(p) /\ UNCHANGED <<codecVars, poolVars, iconVars, hotkeyVars, msgVars, trayVars, lockVars, sweepVars>>
    \/ \E p \in Procs : TryCreateMutex(p) /\ UNCHANGED <<codecVars, poolVars, iconVars, hotkeyVars, msgVars, trayVars, lockVars, sweepVars>>
    \/ \E p \in Procs : CreateMutexDenied(p) /\ UNCHANGED <<codecVars, poolVars, iconVars, hotkeyVars, msgVars, trayVars, lockVars, sweepVars>>
    \/ \E p \in Procs : ResetMutex(p) /\ UNCHANGED <<codecVars, poolVars, iconVars, hotkeyVars, msgVars, trayVars, lockVars, sweepVars>>
    \/ \E p \in Procs : FindWindow(p) /\ UNCHANGED <<codecVars, poolVars, iconVars, hotkeyVars, msgVars, trayVars, lockVars, sweepVars>>
    \/ \E p, q \in Procs : \E inTime \in BOOLEAN :
          HandleCopyData(q, p, inTime) /\ UNCHANGED <<codecVars, poolVars, iconVars, hotkeyVars, msgVars, trayVars, lockVars, sweepVars>>
    \/ \E p \in Procs : SendFails(p) /\ UNCHANGED <<codecVars, poolVars, iconVars, hotkeyVars, msgVars, trayVars, lockVars, sweepVars>>
    \/ \E p \in Procs : Backoff(p) /\ UNCHANGED <<codecVars, poolVars, iconVars, hotkeyVars, msgVars, trayVars, lockVars, sweepVars>>
    \/ \E p \in Procs : CreateMessageWindow(p) /\ UNCHANGED <<codecVars, poolVars, iconVars, hotkeyVars, msgVars, trayVars, lockVars, sweepVars>>
    \/ \E p \in Procs : Setup(p) /\ UNCHANGED <<codecVars, poolVars, iconVars, hotkeyVars, msgVars, trayVars, lockVars, sweepVars>>
    \/ \E p \in Procs : Exit(p) /\ UNCHANGED <<codecVars, poolVars, iconVars, hotkeyVars, msgVars, trayVars, lockVars, sweepVars>>

Spec == Init /\ [][Next]_vars

\* every call of the single-instance step returns to its caller: CreateMutexW,
\* FindWindowW and Sleep(sleep) return, and SendMessageTimeoutW returns
\* within its 10 s
AcquireStep(p) ==
    /\ \/ TryCreateMutex(p) \/ CreateMutexDenied(p) \/ ResetMutex(p)
       \/ FindWindow(p) \/ SendFails(p) \/ Backoff(p)
       \/ \E q \in Procs, inTime \in BOOLEAN : HandleCopyData(q, p, inTime)
    /\ UNCHANGED <<codecVars, poolVars, iconVars, hotkeyVars, msgVars, trayVars, lockVars, sweepVars>>

FairSpec == Spec /\ \A p \in Procs : WF_vars(AcquireStep(p))

(***************************************************************************)
(* The codec's properties.                                                 *)
(***************************************************************************)
\* what the primary takes from a buffer that was deserialized: the three
\* strings and the show command
ViewsInBounds ==
    /\ ViewInBounds(buf, handoff.args)
    /\ ViewInBounds(buf, handoff.env)
    /\ ViewInBounds(buf, handoff.cwd)

DecodedPayload == HandoffStrings(buf, handoff)

\* C1: round trip. Deserializing the bytes that serializing a payload
\* produced succeeds and yields the payload's command line, environment
\* block, working directory and (as a uint32_t) show command.
C1_RoundTrip ==
    (phase = "received" /\ tamper = "none") =>
        /\ handoff.status = "ok"
        /\ ViewsInBounds
        /\ ViewString(buf, handoff.args) = payload.args
        /\ ViewString(buf, handoff.env) = payload.env
        /\ ViewString(buf, handoff.cwd) = payload.cwd
        /\ handoff.show = ToUint32(payload.nCmdShow)

C1_Witness ==
    /\ phase = "received" /\ tamper = "none" /\ handoff.status = "ok"
    /\ Len(payload.args) = MaxLen /\ payload.args[1] # payload.args[2]
    /\ payload.env # <<>> /\ payload.cwd # <<>>
    /\ payload.nCmdShow < 0

\* C2 as claimed: every buffer that deserializes (to strings the buffer
\* holds) is exactly the serialization of what it deserialized to.
C2_ExactInverse ==
    (phase = "received" /\ handoff.status = "ok" /\ ViewsInBounds) =>
        serializeHandoffPayload(DecodedPayload, sizeBits) = buf

\* C2 as amended: a buffer that deserializes to strings it holds begins with
\* the serialization of what it deserialized to, which is the part of the
\* buffer the deserializer walked; bytes after it are ignored.
C2_InverseOnWalkedPrefix ==
    (phase = "received" /\ handoff.status = "ok" /\ ViewsInBounds) =>
        /\ handoff.it <= Len(buf)
        /\ serializeHandoffPayload(DecodedPayload, sizeBits) = SubSeq(buf, 1, handoff.it)

C2_Witness ==
    /\ phase = "received" /\ handoff.status = "ok" /\ ViewsInBounds
    /\ tamper = "extended" /\ handoff.it < Len(buf)
    /\ payload.args # <<>>

\* C3: truncation. Deserializing a strict prefix of a serialized payload
\* throws std::out_of_range, and every byte it read lies inside the prefix.
C3_TruncationSafe ==
    (phase = "received" /\ tamper = "truncated") =>
        /\ handoff.status = "out_of_range"
        /\ \A i \in handoff.reads : i >= 0 /\ i < Len(buf)

C3_Witness ==
    /\ phase = "received" /\ tamper = "truncated"
    /\ handoff.status = "out_of_range"
    /\ payload.args # <<>> /\ payload.cwd # <<>>
    /\ Len(buf) = Len(serializeHandoffPayload(payload, sizeBits)) - 1
    /\ handoff.reads # {}

\* C4: any buffer. Deserializing either throws std::out_of_range or
\* succeeds with every string inside the buffer; in both cases every byte
\* read lies inside the buffer.
C4_NeverPastTheEnd ==
    (phase = "received") =>
        /\ handoff.status = "ok" => ViewsInBounds
        /\ \A i \in handoff.reads : i >= 0 /\ i < Len(buf)

\* C5: the layout. The serialized payload is, in this order and with
\* nothing else, the command line, the environment block and the working
\* directory, each as its length in code units (4 bytes) and its code
\* units (2 bytes each), and the show command (4 bytes):
\* 16 + 2 * (the three lengths) bytes.
LengthAt(b, off) ==
    ByteAt(b, off) + 256 * ByteAt(b, off + 1) + 65536 * ByteAt(b, off + 2)
        + 16777216 * ByteAt(b, off + 3)

HoldsString(b, off, str) ==
    /\ LengthAt(b, off) = Len(str)
    /\ \A i \in 1..Len(str) :
          /\ ByteAt(b, off + 4 + 2 * (i - 1)) = str[i] % 256
          /\ ByteAt(b, off + 4 + 2 * (i - 1) + 1) = str[i] \div 256

C5_WireFormat ==
    (phase = "sent" /\ tamper = "none") =>
        LET la == Len(payload.args)
            le == Len(payload.env)
            lc == Len(payload.cwd)
            so == 12 + 2 * (la + le + lc)
        IN  /\ Len(buf) = 16 + 2 * (la + le + lc)
            /\ HoldsString(buf, 0, payload.args)
            /\ HoldsString(buf, 4 + 2 * la, payload.env)
            /\ HoldsString(buf, 8 + 2 * (la + le), payload.cwd)
            /\ ByteAt(buf, so) = payload.nCmdShow % 256
            /\ ByteAt(buf, so + 1) = (payload.nCmdShow \div 256) % 256
            /\ ByteAt(buf, so + 2) = (payload.nCmdShow \div 65536) % 256
            /\ ByteAt(buf, so + 3) = (payload.nCmdShow \div 16777216) % 256

C5_Witness ==
    /\ phase = "sent" /\ tamper = "none"
    /\ Len(payload.args) = MaxLen /\ Len(payload.env) = MaxLen
    /\ Len(payload.cwd) = MaxLen /\ payload.args[1] > 255
    /\ Len(buf) = 16 + 6 * MaxLen

(***************************************************************************)
(* The launches' properties.                                               *)
(***************************************************************************)
\* the processes that hold the claim, and the non-isolated ones that went
\* on past the single-instance step to own windows
Primaries == {p \in Procs : mutex[p]}

PoolOwners == {p \in Procs : ~isolated[p] /\ pc[p] \in {"create", "setup", "loop"}}

InAcquire(p) == pc[p] \in {"mutex", "reset", "find", "send", "backoff"}

\* C6: at most one primary. Among the non-isolated launches at most one
\* holds the mutex at any moment, and only that one goes on to own windows.
C6_AtMostOnePrimary ==
    /\ Cardinality(Primaries \cup PoolOwners) <= 1
    /\ PoolOwners \subseteq Primaries

\* a launch that tried in vain while another was primary became primary
\* once that one had exited
C6_Witness ==
    \E p, q \in Procs :
        /\ pc[p] = "exited" /\ ~isolated[p]
        /\ mutex[q] /\ pc[q] = "loop" /\ attempts[q] > 1

\* C7: a non-isolated launch whose single-instance step ended without the
\* mutex (handoff delivered, or retries exhausted) has returned: it has no
\* message window, set up no hotkeys, did not touch the notification icon
\* and created no window thread.
C7_NoWorkWithoutClaim ==
    \A p \in Procs :
        (~isolated[p] /\ outcome[p] \in {"HandoffSucceeded", "HandoffFailed"}) =>
            /\ pc[p] = "returned"
            /\ ~mutex[p] /\ ~window[p] /\ ~hotkeys[p] /\ ~icon[p]
            /\ threads[p] = <<>>

C7_Witness ==
    \E p, q \in Procs :
        /\ outcome[p] = "HandoffSucceeded" /\ pc[p] = "returned" /\ sendFailed[p]
        /\ pc[q] = "loop" /\ Len(threads[q]) = 2

\* C8: an isolated launch never calls CreateMutexW, FindWindowW or
\* SendMessageTimeoutW (and never sleeps): it goes straight on as its own
\* primary, whatever other instances run.
C8_IsolatedSkips ==
    \A p \in Procs :
        isolated[p] =>
            /\ attempts[p] = 0 /\ searches[p] = 0 /\ hwnd[p] = 0
            /\ ~sendFailed[p] /\ delays[p] = <<>>
            /\ ~mutex[p] /\ p \notin mutexHandles
            /\ outcome[p] = "BecamePrimary"
            /\ pc[p] \in {"create", "setup", "loop", "exited"}

C8_Witness ==
    \E p, q \in Procs :
        /\ isolated[p] /\ pc[p] = "loop" /\ threads[p] # <<>>
        /\ ~isolated[q] /\ mutex[q] /\ pc[q] = "loop"

RECURSIVE SumSeq(_)
SumSeq(d) == IF d = <<>> THEN 0 ELSE Head(d) + SumSeq(Tail(d))

\* the delays slept so far, the attempts made and the way out of the loop
BackoffBounded(p) ==
    LET d == delays[p]
    IN  /\ attempts[p] <= 14 /\ Len(d) <= 14 /\ Len(d) <= attempts[p]
        /\ d # <<>> => d[1] = 50
        /\ \A i \in 1..(Len(d) - 1) : d[i + 1] = (3 * d[i]) \div 2
        /\ SumSeq(d) <= 30000
        /\ InAcquire(p) =>
              ENABLED (\/ TryCreateMutex(p) \/ ResetMutex(p) \/ FindWindow(p)
                       \/ SendFails(p) \/ Backoff(p))
        /\ outcome[p] = "HandoffFailed" =>
              /\ attempts[p] = 14 /\ Len(d) = 14 /\ SumSeq(d) = 28941
              /\ pc[p] = "returned" /\ ~mutex[p]

\* C9: the single-instance step terminates (under FairSpec, where each of
\* its calls returns). The delays are 50 ms first and then each 1.5 times
\* the one before, rounded down; there are at most 14 attempts and the
\* delays sum to at most 30000 ms; a launch that is still trying always has
\* a next step; the launch whose last attempt failed has made 14 attempts,
\* slept 28941 ms and returns without the mutex; and from some moment on no
\* launch is in the step any more.
C9_BoundedBackoff ==
    /\ [](\A p \in Procs : BackoffBounded(p))
    /\ <>[](\A p \in Procs : ~InAcquire(p))

\* the launch gave up although no message window ever existed
C9_Witness ==
    \E p \in Procs :
        /\ outcome[p] = "HandoffFailed" /\ ~sendFailed[p]
        /\ \A q \in Procs : ~window[q] /\ pc[q] # "exited"

\* C10 as claimed: a launch one of whose sends failed or timed out does not
\* become primary and creates no windows.
C10_FailedSendGivesUp ==
    \A p \in Procs :
        sendFailed[p] => (~mutex[p] /\ ~window[p] /\ threads[p] = <<>>)

\* C10 as amended: after a send that failed or timed out the launch sleeps
\* the delay of this attempt and tries again; it gives up, without the
\* mutex and without a window, only when the last attempt has failed.
C10_FailedSendRetries ==
    /\ [][\A p \in Procs :
            (pc[p] = "send" /\ pc'[p] # "send" /\ outcome'[p] # "HandoffSucceeded") =>
                /\ sendFailed'[p]
                /\ pc'[p] = "backoff" /\ sleep'[p] = sleep[p]
                /\ outcome'[p] = "none"]_vars
    /\ [](\A p \in Procs :
            (sendFailed[p] /\ outcome[p] = "HandoffFailed") =>
                /\ attempts[p] = 14 /\ ~LoopTest(sleep[p])
                /\ ~mutex[p] /\ ~window[p] /\ threads[p] = <<>>)

\* a launch whose send failed tried again and became the primary
C10_Witness ==
    \E p \in Procs :
        sendFailed[p] /\ mutex[p] /\ pc[p] = "loop" /\ threads[p] # <<>>

(***************************************************************************)
(* The pool's properties.                                                  *)
(***************************************************************************)
\* a step of _createNewWindowThread
IsRequest == requests' = requests + 1

\* C11: where windows are refrigerated, with W records in the fridge after
\* the last close (run.w), the next W requests each take one record out of
\* the fridge and start no thread, and each request after them, the fridge
\* being empty, starts exactly one thread.
C11_ReuseThenSpawn ==
    /\ [](~isWindows11 =>
            /\ run.reused <= run.w
            /\ Len(oldWindows) = run.w - run.reused
            /\ run.spawned > 0 => run.reused = run.w)
    /\ [][(~isWindows11 /\ IsRequest) =>
            IF run.reused < run.w
            THEN /\ Len(oldWindows') = Len(oldWindows) - 1
                 /\ Started' = Started
                 /\ run' = [run EXCEPT !.reused = @ + 1]
            ELSE /\ oldWindows = <<>> /\ oldWindows' = <<>>
                 /\ Cardinality(Started') = Cardinality(Started) + 1
                 /\ run' = [run EXCEPT !.spawned = @ + 1]]_vars

\* one window was closed, the next request reused its record and the one
\* after it started a thread
C11_Witness ==
    /\ ~isWindows11
    /\ run = [w |-> 1, reused |-> 1, spawned |-> 1]
    /\ Cardinality(Started) = 2 /\ requests = 3

\* C12: a request that finds the fridge not empty takes the record that was
\* refrigerated last among those in it, and hands that record the request.
C12_LastInFirstOut ==
    [][(IsRequest /\ oldWindows # <<>>) =>
          \E t \in Range(oldWindows) :
              /\ Range(oldWindows') = Range(oldWindows) \ {t}
              /\ \A u \in Range(oldWindows) \ {t} : parkedAt[u] < parkedAt[t]
              /\ served'[t] = Append(served[t], requests')
              /\ \A u \in Records \ {t} : served'[u] = served[u]]_vars

\* the record started first was refrigerated last and is reheated first
C12_Witness ==
    \E t, u \in Records :
        /\ t < u
        /\ Reheated(t) /\ served[t] = <<1, 3>>
        /\ u \in Range(oldWindows) /\ 0 < parkedAt[u] /\ parkedAt[u] < parkedAt[t]

\* the places where request r was handed to a record
Consumers(r) ==
    {c \in Records \X (1..MaxRequests) : c[2] <= Len(served[c[1]]) /\ served[c[1]][c[2]] = r}

\* C13: a call of _createNewWindowThread either takes exactly one record
\* out of the fridge, hands it the request and starts no thread (fridge not
\* empty), or starts exactly one thread for the request and leaves the
\* fridge as it is (fridge empty); every request made so far was handed to
\* exactly one record, once.
C13_ConsumedExactlyOnce ==
    /\ [](\A r \in 1..requests : Cardinality(Consumers(r)) = 1)
    /\ [][IsRequest =>
            \E t \in Records :
                /\ served'[t] = Append(served[t], requests')
                /\ \A u \in Records \ {t} : served'[u] = served[u]
                /\ IF oldWindows # <<>>
                   THEN /\ t \in Range(oldWindows)
                        /\ Len(oldWindows') = Len(oldWindows) - 1
                        /\ Range(oldWindows') = Range(oldWindows) \ {t}
                        /\ Started' = Started
                   ELSE /\ oldWindows' = oldWindows
                        /\ t \notin Started
                        /\ Started' = Started \cup {t}]_vars

\* one request was served by a new thread, one by a reheated record and a
\* third by another new thread
C13_Witness ==
    \E t, u \in Records :
        /\ requests = 3
        /\ served[t] = <<1, 2>> /\ served[u] = <<3>>
        /\ Started = {t, u} /\ oldWindows = <<>>

\* the record's thread has left the loop of KeepWarm
TornDown(t) == wpc[t] \in {"rundown", "terminated"}

\* C14: a record whose thread has left the loop of KeepWarm is in neither
\* list, stays torn down and is handed no request any more.
C14_TerminatedIsAbsorbing ==
    /\ [](\A t \in Records :
            TornDown(t) => t \notin Range(windows) /\ t \notin Range(oldWindows))
    /\ [][\A t \in Records :
            TornDown(t) => TornDown(t)' /\ served'[t] = served[t]]_vars

\* two records were torn down one after the other, and the third request
\* went to a new one
C14_Witness ==
    \E t, u, v \in Records :
        /\ wpc[t] = "terminated" /\ served[t] = <<1>>
        /\ wpc[u] = "terminated" /\ served[u] = <<2>>
        /\ wpc[v] = "pump" /\ served[v] = <<3>>

\* the windows whose message pump runs
Running == {t \in Records : wpc[t] = "pump"}

\* v >= k, for a uint32_t v and a small k
AtLeast(v, k) == v.hi > 0 \/ v.lo >= k

\* C15: the counter is incremented at every spawn and every reheat, so that
\* it is at least the number of the windows that run.
C15_CounterCountsWindows ==
    AtLeast(windowThreadInstances, Cardinality(Running))

\* the thread of t goes through one side of the branch on Utils::IsWindows11()
PassesBranch(t) == wpc[t] = "policy" /\ wpc'[t] # "policy"

C17_OneQuitAtLastWindow ==
    [][/\ \A t \in Records :
            PassesBranch(t) =>
                closeCalls' = closeCalls +
                    (IF /\ windowThreadInstances = ToUint32(1)
                        /\ windowThreadInstances' = ToUint32(0)
                        /\ (quitting \/ ~allowHeadless)
                     THEN 1 ELSE 0)
       /\ closeCalls' # closeCalls => \E t \in Records : PassesBranch(t)]_vars

\* the decrement from 1 to 0 has called _close() and a later decrement of
\* another close has not
C17_Witness ==
    /\ ~allowHeadless
    /\ closeCalls = 1
    /\ windowThreadInstances = Dec32(ToUint32(0))

\* every window that was opened has closed: its thread has gone through the
\* decrement and no request is waiting in a record
AllWindowsClosed ==
    /\ Started # {}
    /\ windows = <<>>
    /\ \A t \in Started :
          /\ wpc[t] \in {"park", "cold", "rundown", "terminated"}
          /\ ~Reheated(t)

\* C18: once all the windows have closed and headless operation is not
\* allowed, the quit is on its way: _close() has been called by the last
\* decrement (nothing but a decrement ever calls it).
C18_QuitAfterLastWindow ==
    (AllWindowsClosed /\ ~allowHeadless) => closeCalls >= 1

\* C19: the exit is ordered. No window thread ends the process; the quit
\* message is posted on the main thread after a window thread asked for it,
\* the message loop ends only with the quit posted, the flush and the sweep
\* run on the main thread only after the loop has ended, and the process is
\* terminated by the main thread only after they are done.
C19_OrderedExit ==
    /\ terminatedBy # "window"
    /\ quitPosted => closeCalls >= 1
    /\ mainpc # "loop" => quitPosted
    /\ flushed <=> mainpc \in {"terminate", "exited"}
    /\ mainpc = "exited" => terminatedBy = "main"
    /\ terminatedBy = "main" => mainpc = "exited"

\* the process has gone through the whole exit after a window thread's quit
C19_Witness ==
    /\ closeCalls >= 1
    /\ quitPosted
    /\ flushed
    /\ mainpc = "exited"
    /\ terminatedBy = "main"

\* C20: when a call of _checkWindowsForNotificationIcon has completed,
\* _notificationIconShown is the setting of that call or-ed with "some
\* window of _windows, as the call's loop found it, is a quake window".
C20_ShownIsNeeded ==
    [][/\ (iconpc = "called" /\ iconpc' = "scanned") =>
            needsIcon' = (requestsTrayIcon \/
                          \E t \in Range(windows) : isQuakeWindow[t])
       /\ (iconpc = "scanned" /\ iconpc' = "idle") =>
            notificationIconShown' = needsIcon]_vars

\* a call has completed with the setting off, two windows in the list and
\* the first of them alone in quake mode
C20_Witness ==
    /\ iconpc = "idle"
    /\ shell = "NIM_ADD"
    /\ notificationIconShown
    /\ ~requestsTrayIcon
    /\ Len(windows) = 2
    /\ isQuakeWindow[windows[1]]
    /\ ~isQuakeWindow[windows[2]]

\* a call of _checkWindowsForNotificationIcon completes
Recomputed == iconpc = "scanned" /\ iconpc' = "idle"

RECURSIVE Summons(_)
Summons(bs) ==
    IF bs = <<>> THEN <<>>
    ELSE IF Head(bs).summon THEN <<Head(bs).chord>> \o Summons(Tail(bs))
    ELSE Summons(Tail(bs))

\* a call of _setupGlobalHotkeys resumes on the main thread
Resumes == resyncQueue' = resyncQueue - 1

\* C22: a resync from a table of n entries to m new bindings makes n
\* unregister calls for the ids 0..n-1, then m register calls for the ids
\* 0..m-1 with the chords of the new bindings in their order, and nothing
\* else; afterwards the table is the new bindings and the OS holds no id >= m.
C22_ResyncCalls ==
    [][(Resumes /\ hasWindow) =>
          LET n   == Len(hotkeyTable)
              new == Summons(globalHotkeys)
              m   == Len(new)
              c   == resync'.calls
          IN  /\ Len(c) = n + m
              /\ \A i \in 1..n : c[i].op = "unregister" /\ c[i].id = i - 1
              /\ \A j \in 1..m : /\ c[n + j].op = "register"
                                 /\ c[n + j].id = j - 1
                                 /\ c[n + j].chord = new[j]
              /\ hotkeyTable' = new
              /\ \A e \in osHotkeys' : e.id < m]_vars

\* a resync from one entry to two bindings has been made
C22_Witness ==
    /\ hasWindow
    /\ resync.resumed
    /\ Len(resync.calls) = 3
    /\ resync.calls[1].op = "unregister"
    /\ resync.calls[2].op = "register"
    /\ Len(hotkeyTable) = 2

\* C23: a registration that fails leaves that binding alone inactive, every
\* other binding of the new set is held by the OS under its own position
\* in the set; and whatever call fails, all the unregister and register
\* calls of the resync are made.
C23_FailuresAreLocal ==
    [][(Resumes /\ hasWindow) =>
          LET n   == Len(hotkeyTable)
              new == Summons(globalHotkeys)
              m   == Len(new)
              c   == resync'.calls
          IN  /\ Len(c) = n + m
              /\ \A j \in 1..m :
                    c[n + j].ok <=> ([id |-> j - 1, chord |-> new[j]] \in osHotkeys')
              /\ \A e \in osHotkeys' : e.id < m /\ e.chord = new[e.id + 1]
              /\ hotkeyTable' = new]_vars

\* a resync whose first unregister call failed and whose first registration
\* failed, with the second binding registered under id 1
C23_Witness ==
    /\ hasWindow
    /\ resync.resumed
    /\ Len(resync.calls) = 4
    /\ resync.calls[1].op = "unregister" /\ ~resync.calls[1].ok
    /\ resync.calls[2].op = "unregister" /\ resync.calls[2].ok
    /\ resync.calls[3].op = "register" /\ ~resync.calls[3].ok
    /\ resync.calls[4].op = "register" /\ resync.calls[4].ok
    /\ \E e \in osHotkeys : e.id = 1

\* C24: a resync that resumes with no message window makes no call and
\* leaves the table as it is.
C24_NoWindowNoResync ==
    [][(Resumes /\ ~hasWindow) =>
          /\ hotkeyTable' = hotkeyTable
          /\ osHotkeys' = osHotkeys
          /\ resync'.calls = <<>>]_vars

\* a call has resumed without a window while the settings held a binding
\* to register
C24_Witness ==
    /\ ~hasWindow
    /\ resync.resumed
    /\ Summons(globalHotkeys) # <<>>
    /\ resync.calls = <<>>
    /\ hotkeyTable = <<>>

\* the main thread has handled a message (one that leaves everything as it
\* was, after the same message, is a step that changes nothing)
Handled == last' # last \/ hadException' # hadException \/ requests' # requests

\* the request a launch asks for: its command line split into arguments,
\* its working directory, its show command and its environment
RequestOf(p) ==
    [argv |-> buildArgsFromCommandline(LaunchPayload(p).args),
     cwd |-> LaunchPayload(p).cwd,
     showCommand |-> ToUint32(LaunchPayload(p).nCmdShow),
     env |-> LaunchPayload(p).env]

\* C25: a handoff message that is cut short, or does not decode for another
\* reason, throws and changes nothing: no request, no thread, the lists and
\* the counter as they were, and the main thread still in its loop.
C25_BadHandoffDiscarded ==
    [][(Handled /\ last'.kind = "WM_COPYDATA" /\ last'.tagged
               /\ (~last'.intact \/ ~last'.decoded)) =>
          /\ last'.threw /\ ~last'.decoded
          /\ UNCHANGED <<requests, requestArgs, served, wpc, windows, oldWindows,
                         windowThreadInstances>>
          /\ mainpc' = "loop"]_vars

\* a handoff cut short was thrown away while a window was open, and the
\* window is still there
C25_Witness ==
    /\ last.kind = "WM_COPYDATA"
    /\ last.tagged /\ ~last.intact /\ last.threw
    /\ Len(windows) = 1
    /\ requests = 1
    /\ mainpc = "loop"

\* C26: whatever a message's case throws, the main thread stays in its
\* message loop.
C26_LoopSurvivesExceptions ==
    (hadException \/ last.threw) => (mainpc = "loop" /\ terminatedBy = "none")

\* after a message whose case threw, a handoff was handled and served
C26_Witness ==
    /\ hadException
    /\ last.kind = "WM_COPYDATA"
    /\ last.decoded
    /\ mainpc = "loop"

\* C28: a message with the handoff tag that decodes makes exactly one
\* request, with the sender's command line split into arguments, its
\* working directory, show command and environment; no other message makes
\* a request.
C28_OneRequestPerHandoff ==
    [][/\ Handled =>
            IF last'.kind = "WM_COPYDATA" /\ last'.tagged /\ last'.decoded
            THEN /\ requests' = requests + 1
                 /\ requestArgs' = Append(requestArgs, RequestOf(last'.from))
            ELSE /\ requests' = requests
                 /\ requestArgs' = requestArgs
       /\ requests' # requests => Handled]_vars

\* two launches have handed their command lines over, one after the other
C28_Witness ==
    /\ Len(requestArgs) = 2
    /\ requestArgs[1] = RequestOf(1)
    /\ requestArgs[2] = RequestOf(2)
    /\ requests = 2

\* the thread of t takes a step between a throw and the end of its CATCH_LOG()
Failing(t) ==
    /\ wpc'[t] # wpc[t]
    /\ wpc'[t] \in {"unwind", "unwound", "caught"}

\* C27: an exception of CreateHost() or RunMessagePump() stays in its
\* thread: while it is thrown, unwound and caught the main thread stays in
\* its loop, no other thread is moved, the fridge and the other records of
\* _windows stay as they are, and the record of the failing window is no
\* longer in _windows once the exception is caught.
C27_ExceptionContained ==
    /\ [](mainpc = "loop" /\ terminatedBy = "none")
    /\ [](\A t \in Records :
            wpc[t] = "caught" => t \notin Range(windows) \cup Range(oldWindows))
    /\ [][\A t \in Records :
            Failing(t) =>
              /\ \A u \in Records \ {t} : wpc'[u] = wpc[u]
              /\ oldWindows' = oldWindows
              /\ SelectSeq(windows', LAMBDA u : u # t) =
                 SelectSeq(windows, LAMBDA u : u # t)]_vars

\* the pump of one window threw and was caught while another window, never
\* closed, still runs
C27_Witness ==
    \E t, u \in Records :
        /\ Started = {t, u}
        /\ wpc[t] = "caught"
        /\ windowThreadInstances = Dec32(CountAtConstruction)
        /\ wpc[u] = "pump"
        /\ Len(served[u]) = 1
        /\ windows = <<u>>

\* no record twice in the list
NoDuplicates(list) == \A i, j \in DOMAIN list : list[i] = list[j] => i = j

\* C29: a record is at most once in _windows, at most once in _oldWindows
\* and never in both; the records of the fridge are the refrigerated ones,
\* so a window that is closing or was just reheated is in at most one list.
C29_OneListAtMost ==
    /\ NoDuplicates(windows)
    /\ NoDuplicates(oldWindows)
    /\ Range(windows) \cap Range(oldWindows) = {}
    /\ \A t \in Range(oldWindows) : wpc[t] = "cold"
    /\ \A t \in Range(windows) : wpc[t] \in {"pump", "remove"}

\* a reheated record is in _windows again while another one is in the fridge
C29_Witness ==
    /\ \E t \in Range(windows) : Len(served[t]) >= 2
    /\ oldWindows # <<>>

\* C30: on Windows 11 the fridge stays empty, no record is refrigerated or
\* handed a second request, and there are as many threads as requests.
C30_NoFridgeOnWindows11 ==
    isWindows11 =>
        /\ oldWindows = <<>>
        /\ \A t \in Records : Len(served[t]) <= 1 /\ wpc[t] \notin {"park", "cold"}
        /\ Cardinality(Started) = requests

\* on Windows 11 the thread of a closed window has ended and the next
\* request was given to a new thread
C30_Witness ==
    /\ isWindows11
    /\ \E t, u \in Records :
         /\ t # u
         /\ wpc[t] = "terminated"
         /\ Len(served[t]) = 1
         /\ wpc[u] = "pump"

\* nothing runs or waits on the main thread that would call
\* _checkWindowsForNotificationIcon()
TrayQuiescent == MainIdle /\ taskQueue = <<>> /\ ~taskbarCreated

\* C31: once the records of _windows and the setting need no icon and the
\* main thread has nothing left to run, the icon is hidden; so the icon of
\* a quake window that was closed goes without a further event.
C31_IconFollowsWindows ==
    (TrayQuiescent /\ ~NeedsIcon(requestsTrayIcon, windows, isQuakeWindow))
        => ~notificationIconShown

\* C32: when the call of _checkWindowsForNotificationIcon() made for
\* TaskbarCreated finds that the icon is needed, the notification area
\* holds the icon when the call returns.
C32_TaskbarCreatedReAdds ==
    [][(caller.kind = "TaskbarCreated" /\ iconpc = "scanned" /\ iconpc' = "idle"
        /\ needsIcon) => shellHasIcon']_vars

\* C33 as stated: _hotkeys, the OS hotkeys and _notificationIconShown are
\* used on the main thread only, and no call of
\* _checkWindowsForNotificationIcon() is made by the handler of
\* SettingsChanged itself: its recompute runs from the dispatcher queue.
C33_NeverInline ==
    /\ caller.thread = MainThread
    /\ resumed.thread = MainThread
    /\ caller.kind # "SettingsChanged"

\* C33: _hotkeys, the OS hotkeys and _notificationIconShown are used on the
\* main thread only; every _setupGlobalHotkeys() and every recompute that a
\* window thread asked for runs from the dispatcher queue, which is run in
\* the order of its entries; the step of the window thread and the handler
\* of SettingsChanged leave _hotkeys and the OS hotkeys as they are, and the
\* step of the window thread leaves _notificationIconShown as it is. The
\* handler of SettingsChanged, on the main thread, calls
\* _checkWindowsForNotificationIcon() itself.
C33_MainThreadAffinity ==
    /\ [](/\ caller.thread = MainThread
          /\ resumed.thread = MainThread
          /\ resumed.kind \in {"none", "task"}
          /\ caller.from # MainThread => caller.kind = "task")
    /\ [][taskQueue' # taskQueue =>
            \/ taskQueue # <<>> /\ taskQueue' = Tail(taskQueue)
            \/ \E task \in [kind : {"resync", "recompute"}, from : {MainThread} \cup Records] :
                  taskQueue' = Append(taskQueue, task)]_vars
    /\ [][\A t \in Records :
            isQuakeWindow'[t] # isQuakeWindow[t] =>
              /\ taskQueue' = Append(taskQueue, [kind |-> "recompute", from |-> t])
              /\ UNCHANGED <<notificationIconShown, shellHasIcon, iconpc,
                             hotkeyTable, osHotkeys>>]_vars
    /\ [][(caller'.kind = "SettingsChanged" /\ iconpc = "idle" /\ iconpc' = "called") =>
              /\ taskQueue' = Append(taskQueue, [kind |-> "resync", from |-> MainThread])
              /\ UNCHANGED <<hotkeyTable, osHotkeys>>]_vars
    /\ [][(hotkeyTable' # hotkeyTable \/ osHotkeys' # osHotkeys) =>
              /\ taskQueue # <<>>
              /\ Head(taskQueue).kind = "resync"
              /\ taskQueue' = Tail(taskQueue)]_vars

\* a recompute that a window thread asked for has run from the queue and
\* shown the icon, after the resync of the start, while the resync of a
\* settings change waits behind another entry
C33_Witness ==
    /\ caller.kind = "task"
    /\ caller.from # MainThread
    /\ iconpc = "idle"
    /\ notificationIconShown
    /\ resumed.kind = "task"
    /\ Len(hotkeyTable) = 1
    /\ taskQueue # <<>>

\* C34: a lock has one writer at most and no reader beside a writer; a
\* step that changes _windows or _oldWindows is taken by the one thread
\* that holds its lock exclusively, and the loop over _windows by a thread
\* that holds its lock shared.
C34_ListsUnderTheirLocks ==
    /\ [](\A list \in Lists :
            /\ Cardinality(held[list].writers) <= 1
            /\ held[list].writers # {} => held[list].readers = {})
    /\ [][windows' # windows =>
            \E t \in Records : held["_windows"] = [writers |-> {t}, readers |-> {}]]_vars
    /\ [][(oldWindows' # oldWindows \/ requests' # requests) =>
            \E thread \in Threads :
                held["_oldWindows"] = [writers |-> {thread}, readers |-> {}]]_vars
    /\ [][(iconpc = "called" /\ iconpc' = "scanned") =>
            /\ MainThread \in held["_windows"].readers
            /\ held["_windows"].writers = {}]_vars

\* the main thread reads _windows while the thread of a closed window
\* waits to erase its record and another one holds the fridge
C34_Witness ==
    /\ MainThread \in held["_windows"].readers
    /\ \E t \in Records : wpc[t] = "remove" /\ t \in Range(windows)
    /\ held["_oldWindows"].writers # {}

\* the steps of a thread
ThreadStep(thread) == IF thread = MainThread THEN MainStep ELSE WindowStep(thread)

\* C39: no thread holds both locks; the thread of a record holds a lock for
\* its next use of the list only, and none while it runs its pump, waits to
\* be reheated or has ended; a thread that holds a lock can always take its
\* next step, which releases it: no thread waits for a lock for ever.
C39_NoDeadlock ==
    \A thread \in Threads :
        /\ ~(Holds("_windows", thread) /\ Holds("_oldWindows", thread))
        /\ thread \in Records =>
               \A list \in Lists : Holds(list, thread) => list \in WantsLock(thread)
        /\ (/\ thread \in Records
            /\ \/ wpc[thread] = "cold" /\ ~Reheated(thread)
               \/ wpc[thread] \in {"pump", "terminated", "caught"})
               => \A list \in Lists : ~Holds(list, thread)
        /\ (\E list \in Lists : Holds(list, thread)) => ENABLED ThreadStep(thread)

\* both locks are held, by two threads, while a third thread waits for one
C39_Witness ==
    /\ \E t \in Records : held["_oldWindows"].writers = {t}
    /\ held["_windows"].readers = {MainThread}
    /\ \E u \in Records : WantsLock(u) = {"_windows"}

\* Refrigerate() or RundownForExit() has run for the window of the record,
\* or its thread has ended
HostReleased(t) == wpc[t] \in {"park", "cold", "terminated", "caught"}

\* C40: no record of _windows has its host released, whether its pump
\* returned or threw, so that the loop over _windows reads the Logic() of
\* live windows only.
C40_RemovedBeforeReleased ==
    \A t \in Range(windows) : ~HostReleased(t)

\* the pump of one record threw and that of another returned, both records
\* are out of _windows and released, and the main thread reads _windows
C40_Witness ==
    /\ \E t, u \in Records : wpc[t] = "caught" /\ wpc[u] \in {"cold", "terminated"}
    /\ windowThreadInstances = Dec32(Dec32(CountAtConstruction))
    /\ MainThread \in held["_windows"].readers

\* the files of the directory the message loop left that name a session not
\* persisted: 47 characters, the 36 from offset 7 the id of no layout
Orphans ==
    {name \in found :
        /\ Len(name) = 47
        /\ GuidFromString(<<"{">> \o SubSeq(name, 8, 43) \o <<"}">>)
              \notin SessionIds(layouts)}

\* C35 as stated: after the sweep the directory is what the message loop
\* left without the orphans, whatever the primary found at its start.
C35_SweepDeletesOrphans ==
    sweepPc = "terminate" => directory = found \ Orphans

\* C35: after the sweep of a primary that found persisted layouts at its
\* start, the directory is what the message loop left without the orphans:
\* names of other lengths and names of persisted sessions stay; a primary
\* that found no layouts at its start deletes nothing.
C35_SweepDeletesOrphansIfRequired ==
    sweepPc = "terminate" =>
        directory = IF requiresPersistenceCleanupOnExit
                    THEN found \ Orphans
                    ELSE found

\* the sweep deleted an orphan and left a shorter name, a longer name and
\* the file of a persisted session, which is named in small letters
C35_Witness ==
    /\ sweepPc = "terminate"
    /\ requiresPersistenceCleanupOnExit
    /\ Orphans # {} /\ Orphans \cap directory = {}
    /\ \E short, long, kept \in directory :
          /\ Len(short) < 47 /\ Len(long) > 47
          /\ kept = BufferPrefix \o GuidText(1, HexLower) \o <<".", "t", "x", "t">>
          /\ SessionGuid(1) \in SessionIds(layouts)

\* C36: a WM_HOTKEY message whose index is no position of _hotkeys (negative,
\* or at least its size) returns without a read of the table; only the
\* indices 0..size-1 are looked up.
C36_OnlyValidIndicesRead ==
    pressed.read # "none" => pressed.index \in 0..(pressed.size - 1)

\* C37: _windowThreadInstances is decremented only where it is at least 1,
\* so that it never stands at 2^32 - 1.
C37_NeverUnderflows ==
    /\ windowThreadInstances # Dec32(ToUint32(0))
    /\ \A t \in Records :
          ENABLED DecrementWindowCount(t) => AtLeast(windowThreadInstances, 1)

\* C38: where a window thread's decrement calls _close(), and where the main
\* thread posts the quit message, no record of _windows has its message pump
\* running, whatever requests arrive around the close.
C38_NoQuitWhileWindowRuns ==
    [][(closeCalls' # closeCalls \/ (quitPosted' /\ ~quitPosted)) =>
          \A t \in Range(windows') : wpc'[t] # "pump"]_vars

====
